---- MODULE Spec2Model ----
(***************************************************************************)
(* A model of the VkJson serialization library that vkjson_generator.py    *)
(* emits (vkjson.h / vkjson.cc), together with the metadata tables of      *)
(* vk.py that drive the emission.                                          *)
(*                                                                         *)
(* Json::Value is a record tagged by its type(); a C double is kept as a   *)
(* two-limb number with a half bit, so that the limits of int32_t and      *)
(* uint32_t are representable; a uint64_t is its sixteen hex nibbles; a    *)
(* C string is the sequence of its characters.                             *)
(***************************************************************************)
EXTENDS Integers, Sequences, FiniteSets, TLC

\* pc:      "call" while the call described by `call` is pending, "done" after it
\* call:    the function called and its arguments
\* target:  the object the out-parameter points to
\* ret:     the value the call returned
\* errors:  the std::string* errors argument and the string it points to
\* visited: the keys the visitor was called with, in call order
\* branch:  the return ReadValue took at the last visit
\* out:     the Json::Value an encoder produced
VARIABLES pc, call, target, ret, errors, visited, branch, out

vars == <<pc, call, target, ret, errors, visited, branch, out>>

(***************************************************************************)
(* Bounds of the model.                                                    *)
(***************************************************************************)
\* how many entries an input JSON array of a vector or a map holds
MaxElems == 3

(***************************************************************************)
(* Numbers: a double d is hi * Limb + lo (+ 1/2 when half).                *)
(***************************************************************************)
Limb == 256 * 256

Real(i) == [hi |-> i \div Limb, lo |-> i % Limb, half |-> FALSE]

RealAndHalf(i) == [hi |-> i \div Limb, lo |-> i % Limb, half |-> TRUE]

NumLess(a, b) ==
  \/ a.hi < b.hi
  \/ a.hi = b.hi /\ a.lo < b.lo
  \/ a.hi = b.hi /\ a.lo = b.lo /\ ~a.half /\ b.half

\* std::trunc(value) == value
IsIntegral(d) == ~d.half

INT32_MIN == [hi |-> -(Limb \div 2), lo |-> 0, half |-> FALSE]

INT32_MAX == [hi |-> (Limb \div 2) - 1, lo |-> Limb - 1, half |-> FALSE]

UINT32_MAX == [hi |-> Limb - 1, lo |-> Limb - 1, half |-> FALSE]

UINT8_MAX == Real(255)

Zero == Real(0)

(***************************************************************************)
(* Json::Value                                                             *)
(***************************************************************************)
JNull == [type |-> "nullValue"]

JBool(b) == [type |-> "booleanValue", bool |-> b]

JReal(d) == [type |-> "realValue", num |-> d]

JString(s) == [type |-> "stringValue", str |-> s]

JArray(es) == [type |-> "arrayValue", elems |-> es]

JObject(m) == [type |-> "objectValue", members |-> m]

\* (*object)[key]: the member, or null when the object has no such key
Member(object, key) ==
  IF object.type = "objectValue" /\ key \in DOMAIN object.members
  THEN object.members[key]
  ELSE JNull

\* Json::Value::operator!
IsNull(j) == j.type = "nullValue"

\* Json::Value::size()
Size(j) == IF j.type = "arrayValue" THEN Len(j.elems) ELSE 0

(***************************************************************************)
(* 64-bit unsigned values: "0x%016" PRIx64 through snprintf and sscanf.    *)
(***************************************************************************)
\* the field width of the conversion "%016" PRIx64
U64Digits == 16

LowerHex == <<"0", "1", "2", "3", "4", "5", "6", "7", "8", "9", "a", "b", "c", "d", "e", "f">>

UpperHex == <<"0", "1", "2", "3", "4", "5", "6", "7", "8", "9", "A", "B", "C", "D", "E", "F">>

IsHexChar(c) == \E n \in 1..16 : LowerHex[n] = c \/ UpperHex[n] = c

HexVal(c) == (CHOOSE n \in 1..16 : LowerHex[n] = c \/ UpperHex[n] = c) - 1

IsSpace(c) == c \in {" "}

\* snprintf(string, sizeof(string), "0x%016" PRIx64, value)
FormatU64(value) == <<"0", "x">> \o [i \in 1..U64Digits |-> LowerHex[value[i] + 1]]

ToJsonValueUint64(value) == JString(FormatU64(value))

RECURSIVE SkipSpace(_, _)
SkipSpace(s, i) ==
  IF i <= Len(s) /\ IsSpace(s[i]) THEN SkipSpace(s, i + 1) ELSE i

\* the hexadecimal digits of s from position i on, at most w of them
RECURSIVE ScanHex(_, _, _)
ScanHex(s, i, w) ==
  IF w > 0 /\ i <= Len(s) /\ IsHexChar(s[i])
  THEN <<HexVal(s[i])>> \o ScanHex(s, i + 1, w - 1)
  ELSE <<>>

\* the digits read, as a 64-bit value (leading nibbles zero)
PadU64(digits) ==
  [i \in 1..U64Digits |->
     IF i <= U64Digits - Len(digits) THEN 0 ELSE digits[i - (U64Digits - Len(digits))]]

RECURSIVE Increment(_, _)
Increment(v, i) ==
  IF i = 0 THEN v
  ELSE IF v[i] = 15 THEN Increment([v EXCEPT ![i] = 0], i - 1)
  ELSE [v EXCEPT ![i] = v[i] + 1]

\* unsigned negation modulo 2^64, as strtoull does for a leading '-'
NegateU64(v) == Increment([i \in 1..U64Digits |-> 15 - v[i]], U64Digits)

\* the conversion once its digits are read: nothing stored when there is none
ScanDigits(negative, digits) ==
  IF digits = <<>> THEN [count |-> 0, val |-> <<>>]
  ELSE [count |-> 1, val |-> IF negative THEN NegateU64(PadU64(digits)) ELSE PadU64(digits)]

\* an optional 0x or 0X prefix at position i, with w characters left
ScanPrefix(s, negative, i, w) ==
  IF w >= 2 /\ i + 1 <= Len(s) /\ s[i] = "0" /\ s[i + 1] \in {"x", "X"}
  THEN ScanDigits(negative, ScanHex(s, i + 2, w - 2))
  ELSE ScanDigits(negative, ScanHex(s, i, w))

\* an optional sign at position i
ScanSign(s, i) ==
  IF i <= Len(s) /\ s[i] \in {"+", "-"}
  THEN ScanPrefix(s, s[i] = "-", i + 1, U64Digits - 1)
  ELSE ScanPrefix(s, FALSE, i, U64Digits)

\* sscanf(s, "0x%016" PRIx64, value): the number of conversions stored (0 or
\* 1) and the value stored. The directives '0' and 'x' match themselves; the
\* conversion skips white space, then takes an optional sign, an optional
\* 0x/0X prefix and hexadecimal digits of either case, U64Digits characters
\* at most, and leaves the rest of the input unread.
ScanU64(s) ==
  IF Len(s) < 2 \/ s[1] # "0" \/ s[2] # "x" THEN [count |-> 0, val |-> <<>>]
  ELSE ScanSign(s, SkipSpace(s, 3))

\* the value is written only when sscanf stored a conversion
StoreU64(r, value) == [ok |-> r.count = 1, val |-> IF r.count = 1 THEN r.val ELSE value]

AsValueUint64(json_value, value) ==
  IF json_value.type # "stringValue" THEN [ok |-> FALSE, val |-> value]
  ELSE StoreU64(ScanU64(json_value.str), value)

(***************************************************************************)
(* Arithmetic values and enumerations.                                     *)
(***************************************************************************)
AsValueInt32(json_value, value) ==
  IF json_value.type # "realValue" THEN [ok |-> FALSE, val |-> value]
  ELSE IF \/ ~IsIntegral(json_value.num)
          \/ NumLess(json_value.num, INT32_MIN)
          \/ NumLess(INT32_MAX, json_value.num)
       THEN [ok |-> FALSE, val |-> value]
       ELSE [ok |-> TRUE, val |-> json_value.num]

AsValueUint32(json_value, value) ==
  IF json_value.type # "realValue" THEN [ok |-> FALSE, val |-> value]
  ELSE IF \/ ~IsIntegral(json_value.num)
          \/ NumLess(json_value.num, Zero)
          \/ NumLess(UINT32_MAX, json_value.num)
       THEN [ok |-> FALSE, val |-> value]
       ELSE [ok |-> TRUE, val |-> json_value.num]

\* the range check on value32 and the store of AsValue(uint8_t)
StoreUint8(value32, value) ==
  IF NumLess(UINT8_MAX, value32)
  THEN [ok |-> FALSE, val |-> value]
  ELSE [ok |-> TRUE, val |-> value32]

\* the result of the inner AsValue is not looked at: value32 keeps its 0
AsValueUint8(json_value, value) == StoreUint8(AsValueUint32(json_value, Zero).val, value)

AsValueFloat(json_value, value) ==
  IF json_value.type # "realValue" THEN [ok |-> FALSE, val |-> value]
  ELSE [ok |-> TRUE, val |-> json_value.num]

\* EnumTraits<T>::exist: the literals of each enumeration, by value
EnumTraits(T) ==
  CASE T = "VkPhysicalDeviceType" -> 0..4
    [] T = "VkPointClippingBehavior" -> 0..1
    [] T = "VkDriverId" -> 1..14
    [] T = "VkShaderFloatControlsIndependence" -> 0..2
    [] T = "VkPipelineRobustnessBufferBehavior" -> 0..3
    [] T = "VkPipelineRobustnessImageBehavior" -> 0..3
    [] T = "VkExternalFenceHandleTypeFlagBits" -> {1, 2, 4, 8}
    [] T = "VkExternalSemaphoreHandleTypeFlagBits" -> {1, 2, 4, 8, 16}
    [] T = "VkImageLayout" ->
         (0..8) \cup {1000117000, 1000117001, 1000241000, 1000241001, 1000241002,
                      1000241003, 1000314000, 1000314001, 1000001002, 1000024000,
                      1000024001, 1000024002, 1000111000, 1000218000, 1000164003,
                      1000339000}

EnumTypes ==
  {"VkPhysicalDeviceType", "VkPointClippingBehavior", "VkDriverId",
   "VkShaderFloatControlsIndependence", "VkPipelineRobustnessBufferBehavior",
   "VkPipelineRobustnessImageBehavior", "VkExternalFenceHandleTypeFlagBits",
   "VkExternalSemaphoreHandleTypeFlagBits"}

\* a whitelist that lets every value through
existAny(T, e) == TRUE

exist(T, e) == \E literal \in EnumTraits(T) : Real(literal) = e

\* the whitelist check on the uint32_t read and the store of AsValue(enum)
StoreEnum(T, r, t) ==
  IF ~r.ok THEN [ok |-> FALSE, val |-> t]
  ELSE IF ~exist(T, r.val) THEN [ok |-> FALSE, val |-> t]
  ELSE [ok |-> TRUE, val |-> r.val]

AsValueEnum(T, json_value, t) == StoreEnum(T, AsValueUint32(json_value, Zero), t)

\* ToJsonValue for arithmetic types and enumerations: the number itself
\* (every 32-bit value and every float lies inside the clamp)
ToJsonValueArithmetic(value) == JReal(value)


(***************************************************************************)
(* Types of the fields the engine is instantiated for, the structures      *)
(* that carry them, and their values in memory: a number for arithmetic    *)
(* and enumerated fields, sixteen nibbles for uint64_t, the characters     *)
(* before the terminator for a text buffer, a sequence for an array or a   *)
(* vector, a pair, a function from keys for a std::map, and a function     *)
(* from field names for a structure.                                       *)
(***************************************************************************)
TInt32 == [k |-> "int32"]

TUint64 == [k |-> "uint64"]

TUint32 == [k |-> "uint32"]

TUint8 == [k |-> "uint8"]

TFloat == [k |-> "float"]

TEnum(T) == [k |-> "enum", name |-> T]

TArray(T, N) == [k |-> "array", of |-> T, n |-> N]

TChar(N) == [k |-> "char", n |-> N]

TVector(T) == [k |-> "vector", of |-> T]

TPair(F, S) == [k |-> "pair", first |-> F, second |-> S]

TMap(F, S) == [k |-> "map", first |-> F, second |-> S]

TStruct(T) == [k |-> "struct", name |-> T]

\* a variable-length field kept in an inline array of capacity N, its element
\* count in the sibling field size
TList(T, N, size) == [k |-> "list", of |-> T, n |-> N, size |-> size]

\* a variable-length field kept behind a pointer, its element count in the
\* sibling field size; in memory whether the pointer is null, the storage it
\* points to, and whether something was written through it while it pointed
\* to no storage
TPointer(T, size) == [k |-> "pointer", of |-> T, size |-> size]

\* an aggregate whose fields are not followed one by one: in memory the
\* number every field of it holds, in JSON an object holding that number
TOpaque == [k |-> "opaque"]

\* a VkJson<Extension> wrapper: the reported flag and the wrapped structures
TWrapper == [k |-> "wrapper"]

\* VkJsonDevice
TDevice == [k |-> "device"]

\* struct VkJsonInstance
TInstance == [k |-> "instance"]

VK_UUID_SIZE == 16

VK_MAX_EXTENSION_NAME_SIZE == 256

VK_LUID_SIZE == 16

VK_MAX_PHYSICAL_DEVICE_NAME_SIZE == 256

\* the capacities of memoryTypes and memoryHeaps (List[...] in vk.py, inline
\* arrays in the Vulkan headers)
VK_MAX_MEMORY_TYPES == 32

VK_MAX_MEMORY_HEAPS == 16

Field(name, type) == [name |-> name, type |-> type]

\* the visitor calls of Iterate(Visitor*, T*), in the order they are and-ed
\* (the UUID and LUID fields are the uint8_t arrays the Vulkan headers declare,
\* the text buffers are char arrays)
Fields(T) ==
  CASE T = "VkExtent3D" ->
         <<Field("width", TUint32), Field("height", TUint32), Field("depth", TUint32)>>
    [] T = "VkImageFormatProperties" ->
         <<Field("maxExtent", TStruct("VkExtent3D")),
           Field("maxMipLevels", TUint32),
           Field("maxArrayLayers", TUint32),
           Field("sampleCounts", TUint32),
           Field("maxResourceSize", TUint64)>>
    [] T = "VkPhysicalDeviceIDProperties" ->
         <<Field("deviceUUID", TArray(TUint8, VK_UUID_SIZE)),
           Field("driverUUID", TArray(TUint8, VK_UUID_SIZE)),
           Field("deviceLUID", TArray(TUint8, VK_LUID_SIZE)),
           Field("deviceNodeMask", TUint32),
           Field("deviceLUIDValid", TUint32)>>
    [] T = "VkFormatProperties" ->
         <<Field("linearTilingFeatures", TUint32),
           Field("optimalTilingFeatures", TUint32),
           Field("bufferFeatures", TUint32)>>
    [] T = "VkExternalFenceProperties" ->
         <<Field("exportFromImportedHandleTypes", TUint32),
           Field("compatibleHandleTypes", TUint32),
           Field("externalFenceFeatures", TUint32)>>
    [] T = "VkPhysicalDevicePointClippingProperties" ->
         <<Field("pointClippingBehavior", TEnum("VkPointClippingBehavior"))>>
    [] T = "VkPhysicalDeviceMaintenance3Properties" ->
         <<Field("maxPerSetDescriptors", TUint32),
           Field("maxMemoryAllocationSize", TUint64)>>
    [] T = "VkPhysicalDeviceProperties" ->
         <<Field("apiVersion", TUint32),
           Field("driverVersion", TUint32),
           Field("vendorID", TUint32),
           Field("deviceID", TUint32),
           Field("deviceType", TEnum("VkPhysicalDeviceType")),
           Field("deviceName", TChar(VK_MAX_PHYSICAL_DEVICE_NAME_SIZE)),
           Field("pipelineCacheUUID", TArray(TUint8, VK_UUID_SIZE)),
           Field("limits", TOpaque),
           Field("sparseProperties", TOpaque)>>
    [] T = "VkMemoryType" ->
         <<Field("propertyFlags", TUint32), Field("heapIndex", TUint32)>>
    [] T = "VkMemoryHeap" ->
         <<Field("size", TUint64), Field("flags", TUint32)>>
    [] T = "VkPhysicalDeviceMemoryProperties" ->
         <<Field("memoryTypeCount", TUint32),
           Field("memoryTypes",
                 TList(TStruct("VkMemoryType"), VK_MAX_MEMORY_TYPES, "memoryTypeCount")),
           Field("memoryHeapCount", TUint32),
           Field("memoryHeaps",
                 TList(TStruct("VkMemoryHeap"), VK_MAX_MEMORY_HEAPS, "memoryHeapCount"))>>
    [] T = "VkPhysicalDeviceVulkan14Properties" ->
         <<Field("lineSubPixelPrecisionBits", TUint32),
           Field("maxVertexAttribDivisor", TUint32),
           Field("supportsNonZeroFirstInstance", TUint32),
           Field("maxPushDescriptors", TUint32),
           Field("dynamicRenderingLocalReadDepthStencilAttachments", TUint32),
           Field("dynamicRenderingLocalReadMultisampledAttachments", TUint32),
           Field("earlyFragmentMultisampleCoverageAfterSampleCounting", TUint32),
           Field("earlyFragmentSampleMaskTestBeforeSampleCounting", TUint32),
           Field("depthStencilSwizzleOneSupport", TUint32),
           Field("polygonModePointSize", TUint32),
           Field("nonStrictSinglePixelWideLinesUseParallelogram", TUint32),
           Field("nonStrictWideLinesUseParallelogram", TUint32),
           Field("blockTexelViewCompatibleMultipleLayers", TUint32),
           Field("maxCombinedImageSamplerDescriptorCount", TUint32),
           Field("fragmentShadingRateClampCombinerInputs", TUint32),
           Field("defaultRobustnessStorageBuffers", TEnum("VkPipelineRobustnessBufferBehavior")),
           Field("defaultRobustnessUniformBuffers", TEnum("VkPipelineRobustnessBufferBehavior")),
           Field("defaultRobustnessVertexInputs", TEnum("VkPipelineRobustnessBufferBehavior")),
           Field("defaultRobustnessImages", TEnum("VkPipelineRobustnessImageBehavior")),
           Field("copySrcLayoutCount", TUint32),
           Field("pCopySrcLayouts", TPointer(TEnum("VkImageLayout"), "copySrcLayoutCount")),
           Field("copyDstLayoutCount", TUint32),
           Field("pCopyDstLayouts", TPointer(TEnum("VkImageLayout"), "copyDstLayoutCount")),
           Field("optimalTilingLayoutUUID", TArray(TUint8, VK_UUID_SIZE)),
           Field("identicalMemoryTypeRequirements", TUint32)>>

FieldNames(T) == {Fields(T)[i].name : i \in 1..Len(Fields(T))}

FieldType(T, f) == Fields(T)[CHOOSE i \in 1..Len(Fields(T)) : Fields(T)[i].name = f].type

(***************************************************************************)
(* The device snapshot. A member is named by the key it is visited under,  *)
(* an extension wrapper by the name of its extension.                      *)
(***************************************************************************)
\* VK_MAKE_API_VERSION(variant, major, minor, patch)
VK_MAKE_API_VERSION(variant, major, minor, patch) ==
  Real(variant * (2 ^ 29) + major * (2 ^ 22) + minor * (2 ^ 12) + patch)

VK_API_VERSION_1_0 == VK_MAKE_API_VERSION(0, 1, 0, 0)

VK_API_VERSION_1_1 == VK_MAKE_API_VERSION(0, 1, 1, 0)

VK_API_VERSION_1_2 == VK_MAKE_API_VERSION(0, 1, 2, 0)

VK_API_VERSION_1_3 == VK_MAKE_API_VERSION(0, 1, 3, 0)

VK_API_VERSION_1_4 == VK_MAKE_API_VERSION(0, 1, 4, 0)

\* apiVersion ^ VK_API_VERSION_PATCH(apiVersion): the low twelve bits cleared
WithoutPatch(apiVersion) ==
  [apiVersion EXCEPT !.lo = apiVersion.lo - (apiVersion.lo % (2 ^ 12))]

\* the case labels of the switch of Iterate(Visitor*, VkJsonDevice*), in
\* order, with the statements between each label and the next: every
\* statement is one "ret &=" of the keys it and-s together
DeviceTiers ==
  <<[version |-> VK_API_VERSION_1_4, statements |-> << <<"core14">> >>],
    [version |-> VK_API_VERSION_1_3, statements |-> << <<"core13">> >>],
    [version |-> VK_API_VERSION_1_2, statements |-> << <<"core11">>, <<"core12">> >>],
    [version |-> VK_API_VERSION_1_1,
     statements |-> << <<"subgroupProperties", "pointClippingProperties",
                         "multiviewProperties", "idProperties", "maintenance3Properties",
                         "multiviewFeatures", "variablePointersFeatures",
                         "protectedMemoryFeatures", "samplerYcbcrConversionFeatures",
                         "shaderDrawParameterFeatures", "bit16StorageFeatures",
                         "externalFenceProperties", "externalSemaphoreProperties">> >>],
    [version |-> VK_API_VERSION_1_0,
     statements |-> << <<"properties", "features", "memory", "queues", "extensions",
                         "layers", "formats">> >>]>>

\* the keys of VULKAN_EXTENSIONS_AND_STRUCTS_MAPPING["extensions"], in order
Extensions ==
  <<"VK_KHR_variable_pointers", "VK_KHR_shader_float16_int8", "VK_EXT_image_2d_view_of_3d",
    "VK_EXT_custom_border_color", "VK_EXT_primitive_topology_list_restart",
    "VK_EXT_provoking_vertex", "VK_KHR_index_type_uint8", "VK_EXT_index_type_uint8",
    "VK_KHR_vertex_attribute_divisor", "VK_EXT_vertex_attribute_divisor",
    "VK_EXT_transform_feedback", "VK_KHR_shader_subgroup_uniform_control_flow",
    "VK_KHR_shader_subgroup_extended_types", "VK_KHR_8bit_storage",
    "VK_KHR_shader_integer_dot_product", "VK_IMG_relaxed_line_rasterization",
    "VK_KHR_line_rasterization", "VK_EXT_line_rasterization",
    "VK_EXT_primitives_generated_query", "VK_KHR_shader_float_controls",
    "VK_KHR_driver_properties">>

ExtensionNames == {Extensions[i] : i \in 1..Len(Extensions)}

\* the keys of a sequence of statements, in order
RECURSIVE Flatten(_)
Flatten(statements) ==
  IF statements = <<>> THEN <<>>
  ELSE Head(statements) \o Flatten(Tail(statements))

\* a switch whose every case ends in a break
OwnStatements(i) == DeviceTiers[i].statements

\* the statements from the case label of tier i down to the last label
RECURSIVE Fallthrough(_)
Fallthrough(i) ==
  IF i > Len(DeviceTiers) THEN <<>>
  ELSE DeviceTiers[i].statements \o Fallthrough(i + 1)

\* every key a case of the switch visits
TierKeys ==
  UNION {{Flatten(DeviceTiers[i].statements)[n] : n \in 1..Len(Flatten(DeviceTiers[i].statements))} :
           i \in 1..Len(DeviceTiers)}

DeviceMembers == TierKeys \cup ExtensionNames

\* the types of the members of struct VkJsonDevice
MemberType(key) ==
  IF key = "properties" THEN TStruct("VkPhysicalDeviceProperties")
  ELSE IF key = "externalFenceProperties"
  THEN TMap(TEnum("VkExternalFenceHandleTypeFlagBits"), TStruct("VkExternalFenceProperties"))
  ELSE IF key \in ExtensionNames THEN TWrapper
  ELSE TOpaque

\* the label the switch jumps to: its place in DeviceTiers, 0 when the value
\* matches no label (the switch has no default)
CaseLabel(apiVersion) ==
  IF \E i \in 1..Len(DeviceTiers) : DeviceTiers[i].version = WithoutPatch(apiVersion)
  THEN CHOOSE i \in 1..Len(DeviceTiers) : DeviceTiers[i].version = WithoutPatch(apiVersion)
  ELSE 0

\* if (device->X.reported) ret &= visitor->Visit(extension, &device->X), for
\* the extensions from place i on
RECURSIVE ReportedStatements(_, _)
ReportedStatements(device, i) ==
  IF i > Len(Extensions) THEN <<>>
  ELSE (IF device[Extensions[i]].reported THEN << <<Extensions[i]>> >> ELSE <<>>)
       \o ReportedStatements(device, i + 1)

\* the statements the traversal of the device runs: those inside the body of
\* the switch, from the label jumped to down to its closing brace
DeviceStatements(device) ==
  IF CaseLabel(device["properties"].apiVersion) = 0 THEN <<>>
  ELSE Fallthrough(CaseLabel(device["properties"].apiVersion))
       \o ReportedStatements(device, 1)

\* T(): a value-initialised object
RECURSIVE Default(_)
Default(T) ==
  CASE T.k \in {"int32", "uint32", "uint8", "float", "enum"} -> Zero
    [] T.k = "uint64" -> [i \in 1..U64Digits |-> 0]
    [] T.k = "char" -> <<>>
    [] T.k = "array" -> [i \in 1..T.n |-> Default(T.of)]
    [] T.k = "vector" -> <<>>
    [] T.k = "pair" -> <<Default(T.first), Default(T.second)>>
    [] T.k = "map" -> <<>>
    [] T.k = "struct" ->
         [f \in FieldNames(T.name) |-> Default(FieldType(T.name, f))]
    [] T.k = "list" -> [i \in 1..T.n |-> Default(T.of)]
    [] T.k = "pointer" -> [null |-> TRUE, data |-> <<>>, wild |-> FALSE]
    [] T.k = "opaque" -> Zero
    [] T.k = "wrapper" -> [reported |-> FALSE, fields |-> Zero]
    [] T.k = "device" -> [key \in DeviceMembers |-> Default(MemberType(key))]
    [] T.k = "instance" -> [apiVersion |-> Zero, deviceGroups |-> <<>>, layers |-> <<>>,
                            extensions |-> <<>>, devices |-> <<>>]

(***************************************************************************)
(* Encoding: ToJsonValue and JsonWriterVisitor.                            *)
(***************************************************************************)
\* the keys of a std::map in iteration order (ascending)
RECURSIVE SortedKeys(_)
SortedKeys(keys) ==
  IF keys = {} THEN <<>>
  ELSE LET least == CHOOSE a \in keys : \A b \in keys \ {a} : NumLess(a, b)
       IN <<least>> \o SortedKeys(keys \ {least})

RECURSIVE ToJsonValue(_, _)
\* ArrayToJsonValue(count, values)
ArrayToJsonValue(T, count, values) ==
  JArray([i \in 1..count |-> ToJsonValue(T, values[i])])

\* the uint32_t a count field holds
ToNat(d) == d.hi * Limb + d.lo

\* JsonWriterVisitor::Visit, and VisitArray for a variable-length field: the
\* first count elements of the array, or of the storage pointed to
WriteField(T, value, f) ==
  IF FieldType(T, f).k = "list"
  THEN ArrayToJsonValue(FieldType(T, f).of, ToNat(value[FieldType(T, f).size]), value[f])
  ELSE IF FieldType(T, f).k = "pointer"
  THEN ArrayToJsonValue(FieldType(T, f).of, ToNat(value[FieldType(T, f).size]), value[f].data)
  ELSE ToJsonValue(FieldType(T, f), value[f])

\* Iterate under JsonWriterVisitor: every Visit stores object_[key] and
\* returns true, so every field is written
WriteStruct(T, value) ==
  JObject([f \in FieldNames(T) |-> WriteField(T, value, f)])

\* the fields of an aggregate that is not followed, under one key
ToJsonValueOpaque(value) == JObject([fields |-> ToJsonValueArithmetic(value)])

\* Iterate of a wrapper visits its structures, never its reported flag
ToJsonValueWrapper(value) == ToJsonValueOpaque(value.fields)

\* the keys the writer stores for the statements run
WriteKeys(value, keys) ==
  JObject([key \in {keys[i] : i \in 1..Len(keys)} |-> ToJsonValue(MemberType(key), value[key])])

\* Iterate(Visitor*, VkJsonDevice*) under JsonWriterVisitor
WriteDevice(value) == WriteKeys(value, Flatten(DeviceStatements(value)))

\* char depString[] of Iterate(Visitor*, VkJsonInstance*)
DepString ==
  <<
    "v", "k", "j", "s", "o", "n", " ", "i", "s", " ", "d", "e",
    "p", "r", "e", "c", "a", "t", "e", "d", ",", " ", "a", "n",
    "d", " ", "w", "i", "l", "l", " ", "b", "e", " ", "r", "e",
    "p", "l", "a", "c", "e", "d", " ", "i", "n", " ", "a", " ",
    "f", "u", "t", "u", "r", "e", " ", "r", "e", "l", "e", "a",
    "s", "e"
  >>

\* the case labels of the switch of Iterate(Visitor*, VkJsonInstance*), in
\* order, with the keys visited between each label and the next
InstanceTiers ==
  <<[version |-> VK_API_VERSION_1_4, keys |-> <<>>],
    [version |-> VK_API_VERSION_1_3, keys |-> <<>>],
    [version |-> VK_API_VERSION_1_2, keys |-> <<"apiVersion">>],
    [version |-> VK_API_VERSION_1_1, keys |-> <<"deviceGroups">>],
    [version |-> VK_API_VERSION_1_0, keys |-> <<"layers", "extensions", "devices", "_comment">>]>>

\* the keys visited from the case label of place i down to the closing brace
RECURSIVE InstanceFallthrough(_)
InstanceFallthrough(i) ==
  IF i > Len(InstanceTiers) THEN <<>>
  ELSE InstanceTiers[i].keys \o InstanceFallthrough(i + 1)

\* the keys the traversal of the instance visits: none when api_version
\* without its patch matches no label (the switch has no default)
InstanceStatements(instance) ==
  IF \E i \in 1..Len(InstanceTiers) : InstanceTiers[i].version = WithoutPatch(instance.apiVersion)
  THEN InstanceFallthrough(CHOOSE i \in 1..Len(InstanceTiers) :
                             InstanceTiers[i].version = WithoutPatch(instance.apiVersion))
  ELSE <<>>

\* the types of the members of struct VkJsonInstance, and of depString
InstanceMemberType(key) ==
  CASE key = "apiVersion" -> TUint32
    [] key = "devices" -> TVector(TDevice)
    [] key = "_comment" -> TChar(Len(DepString) + 1)
    [] OTHER -> TVector(TOpaque)

\* Iterate(Visitor*, VkJsonInstance*) under JsonWriterVisitor
WriteInstance(value, keys) ==
  JObject([key \in {keys[i] : i \in 1..Len(keys)} |->
             ToJsonValue(InstanceMemberType(key),
                         IF key = "_comment" THEN DepString ELSE value[key])])

\* std::map is iterated in ascending order of its keys
MapToJsonValue(T, value, keys) ==
  JArray([i \in 1..Len(keys) |->
            ToJsonValue(TPair(T.first, T.second), <<keys[i], value[keys[i]]>>)])

ToJsonValue(T, value) ==
  CASE T.k \in {"int32", "uint32", "uint8", "float", "enum"} -> ToJsonValueArithmetic(value)
    [] T.k = "uint64" -> ToJsonValueUint64(value)
    [] T.k = "char" -> JString(value)
    [] T.k = "array" -> ArrayToJsonValue(T.of, T.n, value)
    [] T.k = "vector" -> ArrayToJsonValue(T.of, Len(value), value)
    [] T.k = "pair" ->
         JArray(<<ToJsonValue(T.first, value[1]), ToJsonValue(T.second, value[2])>>)
    [] T.k = "map" -> MapToJsonValue(T, value, SortedKeys(DOMAIN value))
    [] T.k = "struct" -> WriteStruct(T.name, value)
    [] T.k = "opaque" -> ToJsonValueOpaque(value)
    [] T.k = "wrapper" -> ToJsonValueWrapper(value)
    [] T.k = "device" -> WriteDevice(value)
    [] T.k = "instance" -> WriteInstance(value, InstanceStatements(value))

(***************************************************************************)
(* Decoding: AsValue, AsArray, ReadValue and JsonReaderVisitor. Every      *)
(* operator returns ok, the value returned, and val, the target object     *)
(* after the call.                                                         *)
(***************************************************************************)
\* the errors out-parameter: a null pointer, or the string pointed to
Nullptr == [ptr |-> FALSE]

ErrorString(s) == [ptr |-> TRUE, str |-> s]

SetErrors(errs, s) == IF errs.ptr THEN ErrorString(s) ELSE errs

AsValueChar(N, json_value, value) ==
  IF json_value.type # "stringValue" THEN [ok |-> FALSE, val |-> value]
  ELSE IF Len(json_value.str) >= N THEN [ok |-> FALSE, val |-> value]
  ELSE [ok |-> TRUE, val |-> json_value.str]

\* value->resize(size)
Resize(T, value, size) ==
  [i \in 1..size |-> IF i <= Len(value) THEN value[i] ELSE Default(T)]

RECURSIVE AsValue(_, _, _)
RECURSIVE AsArrayFrom(_, _, _, _, _)
RECURSIVE AsMapFrom(_, _, _, _)
RECURSIVE ReadFields(_, _, _, _, _, _)
RECURSIVE ReadStatements(_, _, _, _, _)

\* one turn of the loop of AsArray: r is what AsValue returned for element i
AsArrayNext(T, json_value, count, values, i, r) ==
  IF ~r.ok THEN [ok |-> FALSE, val |-> [values EXCEPT ![i] = r.val]]
  ELSE AsArrayFrom(T, json_value, count, [values EXCEPT ![i] = r.val], i + 1)

\* the loop of AsArray from element i on
AsArrayFrom(T, json_value, count, values, i) ==
  IF i > count THEN [ok |-> TRUE, val |-> values]
  ELSE AsArrayNext(T, json_value, count, values, i, AsValue(T, json_value.elems[i], values[i]))

AsArray(T, json_value, count, values) ==
  IF json_value.type # "arrayValue" \/ Size(json_value) # count
  THEN [ok |-> FALSE, val |-> values]
  ELSE AsArrayFrom(T, json_value, count, values, 1)

AsValueVector(T, json_value, value) ==
  IF json_value.type # "arrayValue" THEN [ok |-> FALSE, val |-> value]
  ELSE AsArray(T, json_value, Size(json_value), Resize(T, value, Size(json_value)))

\* AsValue(json_value[1], &value->second), after first was read
PairSecond(first, second) == [ok |-> second.ok, val |-> <<first.val, second.val>>]

\* AsValue(json_value[0], &value->first) && ...
PairFirst(S, json_value, value, first) ==
  IF ~first.ok THEN [ok |-> FALSE, val |-> <<first.val, value[2]>>]
  ELSE PairSecond(first, AsValue(S, json_value.elems[2], value[2]))

AsValuePair(F, S, json_value, value) ==
  IF json_value.type # "arrayValue" \/ Size(json_value) # 2
  THEN [ok |-> FALSE, val |-> value]
  ELSE PairFirst(S, json_value, value, AsValue(F, json_value.elems[1], value[1]))

\* a std::map whose insert replaces the entry of a key it already holds
MapInsertOrAssign(value, elem) ==
  [second |-> TRUE,
   map |-> [key \in DOMAIN value \cup {elem[1]} |->
              IF key = elem[1] THEN elem[2] ELSE value[key]]]

\* value->insert(elem): the map after it, and whether elem was inserted
MapInsert(value, elem) ==
  IF elem[1] \in DOMAIN value
  THEN [second |-> FALSE, map |-> value]
  ELSE [second |-> TRUE,
        map |-> [key \in DOMAIN value \cup {elem[1]} |->
                   IF key = elem[1] THEN elem[2] ELSE value[key]]]

\* if (!value->insert(elem).second) return false
MapInserted(T, json_value, value, i, inserted) ==
  IF ~inserted.second THEN [ok |-> FALSE, val |-> value]
  ELSE AsMapFrom(T, json_value, inserted.map, i + 1)

\* if (!AsValue(&json_elem, &elem)) return false
MapElem(T, json_value, value, i, elem) ==
  IF ~elem.ok THEN [ok |-> FALSE, val |-> value]
  ELSE MapInserted(T, json_value, value, i, MapInsert(value, elem.val))

\* the loop of AsValue(std::map) from entry i on
AsMapFrom(T, json_value, value, i) ==
  IF i > Size(json_value) THEN [ok |-> TRUE, val |-> value]
  ELSE MapElem(T, json_value, value, i,
               AsValue(TPair(T.first, T.second), json_value.elems[i],
                       Default(TPair(T.first, T.second))))

AsValueMap(T, json_value, value) ==
  IF json_value.type # "arrayValue" THEN [ok |-> FALSE, val |-> value]
  ELSE AsMapFrom(T, json_value, value, 1)

\* the returns of ReadValue after AsValue returned r
ReadValueResult(key, errs, r) ==
  IF r.ok
  THEN [ok |-> TRUE, val |-> r.val, branch |-> "read", errors |-> errs]
  ELSE [ok |-> FALSE, val |-> r.val, branch |-> "wrong type",
        errors |-> SetErrors(errs, "Wrong type for " \o key \o ".")]

\* ReadValue(object, key, value, errors); branch tells which return was taken
ReadValue(object, key, T, value, errs) ==
  IF IsNull(Member(object, key))
  THEN [ok |-> FALSE, val |-> value, branch |-> "missing",
        errors |-> SetErrors(errs, key \o " missing.")]
  ELSE ReadValueResult(key, errs, AsValue(T, Member(object, key), value))

\* the visits joined so that a failing one does not stop the later ones
JoinVisits(r, rest) ==
  [rest EXCEPT !.ok = r.ok /\ rest.ok,
               !.branch = IF r.ok THEN rest.branch ELSE r.branch]

ReadFieldsNextAnyway(T, object, value, seen, i, name, r) ==
  JoinVisits(r, ReadFields(T, object, r.errors, [value EXCEPT ![name] = r.val],
                           Append(seen, name), i + 1))

\* visitor->Visit(name, &value.name) && ...: r is what the visit returned
ReadFieldsNext(T, object, value, seen, i, name, r) ==
  IF ~r.ok
  THEN [ok |-> FALSE, val |-> [value EXCEPT ![name] = r.val],
        errors |-> r.errors, visited |-> Append(seen, name), branch |-> r.branch]
  ELSE ReadFields(T, object, r.errors, [value EXCEPT ![name] = r.val],
                  Append(seen, name), i + 1)

\* what the pointer holds after AsArray wrote its storage
PointerResult(value, r) == [ok |-> r.ok, val |-> [value EXCEPT !.data = r.val]]

\* AsArray(&json_value, count, *value) where *value is the pointer the field
\* holds: the reader attaches no storage, so when the pointer is null (or its
\* storage shorter than count) the loop writes through it; what happens then
\* is undefined
AsArrayPointer(T, json_value, count, value) ==
  IF json_value.type # "arrayValue" \/ Size(json_value) # count
  THEN [ok |-> FALSE, val |-> value]
  ELSE IF count = 0 THEN [ok |-> TRUE, val |-> value]
  ELSE IF value.null \/ Len(value.data) < count
  THEN [ok |-> TRUE, val |-> [value EXCEPT !.wild = TRUE]]
  ELSE PointerResult(value, AsArrayFrom(T, json_value, count, value.data, 1))

\* JsonReaderVisitor::VisitArray(key, count, T (*value)[N])
VisitArrayInline(object, key, T, value, count, errs) ==
  IF count > T.n
  THEN [ok |-> FALSE, val |-> value, branch |-> "count", errors |-> errs]
  ELSE IF IsNull(Member(object, key))
  THEN [ok |-> FALSE, val |-> value, branch |-> "missing",
        errors |-> SetErrors(errs, key \o " missing.")]
  ELSE ReadValueResult(key, errs, AsArray(T.of, Member(object, key), count, value))

\* JsonReaderVisitor::VisitArray(key, count, T *value)
VisitArrayPointer(object, key, T, value, count, errs) ==
  IF IsNull(Member(object, key))
  THEN [ok |-> FALSE, val |-> value, branch |-> "missing",
        errors |-> SetErrors(errs, key \o " missing.")]
  ELSE ReadValueResult(key, errs, AsArrayPointer(T.of, Member(object, key), count, value))

\* the visit of field f under JsonReaderVisitor(object, errs): VisitArray
\* with the count the sibling field holds by then, Visit otherwise
ReadField(T, object, errs, value, seen, i, f) ==
  ReadFieldsNext(T, object, value, seen, i, f.name,
                 IF f.type.k = "list"
                 THEN VisitArrayInline(object, f.name, f.type, value[f.name],
                                       ToNat(value[f.type.size]), errs)
                 ELSE IF f.type.k = "pointer"
                 THEN VisitArrayPointer(object, f.name, f.type, value[f.name],
                                        ToNat(value[f.type.size]), errs)
                 ELSE ReadValue(object, f.name, f.type, value[f.name], errs))

\* Iterate under JsonReaderVisitor(object, errs): the visits and-ed in field
\* order from field i on; visited lists the keys Visit was called with
ReadFields(T, object, errs, value, seen, i) ==
  IF i > Len(Fields(T))
  THEN [ok |-> TRUE, val |-> value, errors |-> errs, visited |-> seen, branch |-> "read"]
  ELSE ReadField(T, object, errs, value, seen, i, Fields(T)[i])

Iterate(T, object, errs, value) == ReadFields(T, object, errs, value, <<>>, 1)

\* what AsValue for a structure returns of the traversal: not its errors
StructResult(r) == [ok |-> r.ok, val |-> r.val]

\* AsValue for a structure: the visitor is built with a null errors pointer
AsValueStruct(T, json_value, t) ==
  IF json_value.type # "objectValue" THEN [ok |-> FALSE, val |-> t]
  ELSE StructResult(Iterate(T, json_value, Nullptr, t))

\* the fields of an aggregate that is not followed, under one key
AsValueOpaque(json_value, value) ==
  IF json_value.type # "objectValue" THEN [ok |-> FALSE, val |-> value]
  ELSE StructResult(ReadValue(json_value, "fields", TUint32, value, Nullptr))

\* Iterate of a wrapper visits its structures, never its reported flag
WrapperResult(value, r) == [ok |-> r.ok, val |-> [value EXCEPT !.fields = r.val]]

AsValueWrapper(json_value, value) ==
  WrapperResult(value, AsValueOpaque(json_value, value.fields))

\* visitor->Visit(key, &device->member) returned r inside statement s: the
\* and-chain goes on to the next key, or ends and "ret &=" clears ret
VisitedNext(object, statements, s, k, acc, r) ==
  IF r.ok
  THEN ReadStatements(object, statements, s, k + 1,
                      [acc EXCEPT !.val[statements[s][k]] = r.val,
                                  !.errors = r.errors,
                                  !.visited = Append(acc.visited, statements[s][k])])
  ELSE ReadStatements(object, statements, s + 1, 1,
                      [acc EXCEPT !.ok = FALSE,
                                  !.val[statements[s][k]] = r.val,
                                  !.errors = r.errors,
                                  !.visited = Append(acc.visited, statements[s][k]),
                                  !.branch = r.branch])

\* the statements from key k of statement s on, under JsonReaderVisitor
ReadStatements(object, statements, s, k, acc) ==
  IF s > Len(statements) THEN acc
  ELSE IF k > Len(statements[s]) THEN ReadStatements(object, statements, s + 1, 1, acc)
  ELSE VisitedNext(object, statements, s, k, acc,
                   ReadValue(object, statements[s][k], MemberType(statements[s][k]),
                             acc.val[statements[s][k]], acc.errors))

\* Iterate(Visitor*, VkJsonDevice*) under JsonReaderVisitor(object, errs): the
\* switch is evaluated on the device as it is when the traversal starts
ReadDevice(object, errs, device) ==
  ReadStatements(object, DeviceStatements(device), 1, 1,
                 [ok |-> TRUE, val |-> device, errors |-> errs, visited |-> <<>>,
                  branch |-> "read"])

AsValueDevice(json_value, t) ==
  IF json_value.type # "objectValue" THEN [ok |-> FALSE, val |-> t]
  ELSE StructResult(ReadDevice(json_value, Nullptr, t))

\* a traversal that runs every statement of the switch, whatever the version
InstanceReadEvery(instance) ==
  [i \in 1..Len(InstanceTiers) |-> InstanceTiers[i].keys]

\* the statements the traversal of the instance runs, each one "ret &=" of
\* the keys it and-s together: those from the matching case label down
InstanceReadStatements(instance) ==
  IF \E i \in 1..Len(InstanceTiers) : InstanceTiers[i].version = WithoutPatch(instance.apiVersion)
  THEN SubSeq([i \in 1..Len(InstanceTiers) |-> InstanceTiers[i].keys],
              CHOOSE i \in 1..Len(InstanceTiers) :
                 InstanceTiers[i].version = WithoutPatch(instance.apiVersion),
              Len(InstanceTiers))
  ELSE <<>>

RECURSIVE ReadInstanceStatements(_, _, _, _, _)
\* the visit of key k of statement s has returned r: a failing visit ends
\* its statement; "_comment" is read into the local depString
ReadInstanceNext(object, statements, s, k, acc, r) ==
  ReadInstanceStatements(object, statements, IF r.ok THEN s ELSE s + 1, IF r.ok THEN k + 1 ELSE 1,
                         [ok |-> acc.ok /\ r.ok,
                          val |-> IF statements[s][k] = "_comment" THEN acc.val
                                  ELSE [acc.val EXCEPT ![statements[s][k]] = r.val]])

\* Iterate(Visitor*, VkJsonInstance*) under JsonReaderVisitor, from key k of
\* statement s on
ReadInstanceStatements(object, statements, s, k, acc) ==
  IF s > Len(statements) THEN acc
  ELSE IF k > Len(statements[s]) THEN ReadInstanceStatements(object, statements, s + 1, 1, acc)
  ELSE ReadInstanceNext(object, statements, s, k, acc,
                        ReadValue(object, statements[s][k], InstanceMemberType(statements[s][k]),
                                  IF statements[s][k] = "_comment" THEN DepString
                                  ELSE acc.val[statements[s][k]],
                                  Nullptr))

\* AsValue for VkJsonInstance: the switch is evaluated on the instance as it
\* is when the traversal starts
AsValueInstance(json_value, t) ==
  IF json_value.type # "objectValue" THEN [ok |-> FALSE, val |-> t]
  ELSE ReadInstanceStatements(json_value, InstanceReadStatements(t), 1, 1,
                              [ok |-> TRUE, val |-> t])

AsValue(T, json_value, value) ==
  CASE T.k = "int32" -> AsValueInt32(json_value, value)
    [] T.k = "uint64" -> AsValueUint64(json_value, value)
    [] T.k = "uint32" -> AsValueUint32(json_value, value)
    [] T.k = "uint8" -> AsValueUint8(json_value, value)
    [] T.k = "float" -> AsValueFloat(json_value, value)
    [] T.k = "enum" -> AsValueEnum(T.name, json_value, value)
    [] T.k = "array" -> AsArray(T.of, json_value, T.n, value)
    [] T.k = "char" -> AsValueChar(T.n, json_value, value)
    [] T.k = "vector" -> AsValueVector(T.of, json_value, value)
    [] T.k = "pair" -> AsValuePair(T.first, T.second, json_value, value)
    [] T.k = "map" -> AsValueMap(T, json_value, value)
    [] T.k = "struct" -> AsValueStruct(T.name, json_value, value)
    [] T.k = "opaque" -> AsValueOpaque(json_value, value)
    [] T.k = "wrapper" -> AsValueWrapper(json_value, value)
    [] T.k = "device" -> AsValueDevice(json_value, value)
    [] T.k = "instance" -> AsValueInstance(json_value, value)

(***************************************************************************)
(* The public entry points. A JSON text is either malformed or the text of *)
(* a Json::Value: the parser and the printer are those of the JSON         *)
(* library.                                                                *)
(***************************************************************************)
Malformed == [wellformed |-> FALSE]

Text(root) == [wellformed |-> TRUE, root |-> root]

\* VkTypeToJson(t): visitor.get_object().toStyledString()
VkTypeToJson(T, t) == Text(ToJsonValue(T, t))

\* return AsValue(&object, t): the errors pointer is not handed on
FromJsonResult(errs, r) == [ok |-> r.ok, val |-> r.val, errors |-> errs]

\* an entry point that decodes into the object as the caller left it
VkTypeFromJsonInPlace(T, json, t, errs) ==
  IF ~json.wellformed
  THEN [ok |-> FALSE, val |-> t, errors |-> SetErrors(errs, "syntax error")]
  ELSE FromJsonResult(errs, AsValue(T, json.root, t))

\* VkTypeFromJson(json, t, errors): *t = T() comes first; reader->parse
\* writes its messages through errors when it fails
VkTypeFromJson(T, json, t, errs) ==
  IF ~json.wellformed
  THEN [ok |-> FALSE, val |-> Default(T), errors |-> SetErrors(errs, "syntax error")]
  ELSE FromJsonResult(errs, AsValue(T, json.root, Default(T)))

(***************************************************************************)
(* The engine, one call at a time: Init draws a call and the prior content *)
(* of its target, the actions apply the function called.                   *)
(***************************************************************************)
U64Zero == [i \in 1..U64Digits |-> 0]

U64Max == [i \in 1..U64Digits |-> 15]

U64Values ==
  {U64Zero, U64Max,
   <<0, 1, 2, 3, 4, 5, 6, 7, 8, 9, 10, 11, 12, 13, 14, 15>>,
   [i \in 1..U64Digits |-> IF i = U64Digits THEN 1 ELSE 0]}

ToUpper(s) ==
  [i \in 1..Len(s) |->
     IF \E n \in 1..16 : LowerHex[n] = s[i]
     THEN UpperHex[CHOOSE n \in 1..16 : LowerHex[n] = s[i]]
     ELSE s[i]]

\* texts a 64-bit field is decoded from: the encodings and their neighbours
U64Texts ==
  UNION {LET s == FormatU64(v)
         IN {s, ToUpper(s), SubSeq(s, 3, Len(s)), <<"0", "X">> \o SubSeq(s, 3, Len(s)),
             s \o <<"0">>, s \o <<"g">>, <<" ">> \o s, <<"0", "x", "-">> \o SubSeq(s, 3, Len(s)),
             <<"0", "x", " ">> \o SubSeq(s, 3, Len(s)), <<"0", "x", "0", "x">> \o SubSeq(s, 3, Len(s))}
            \cup {SubSeq(s, 1, n) : n \in 0..Len(s)}
         : v \in U64Values}

NumberInputs ==
  {Real(i) : i \in 0..17} \cup
  {Real(255), Real(256), Real(-1), RealAndHalf(0), RealAndHalf(1), INT32_MIN, INT32_MAX, UINT32_MAX,
   [hi |-> Limb, lo |-> 0, half |-> FALSE], [hi |-> -(Limb \div 2) - 1, lo |-> Limb - 1, half |-> FALSE]}

\* Json values of every kind
JsonInputs ==
  {JNull, JBool(TRUE), JString(<<>>), JString(<<"1">>), JString(FormatU64(U64Max)),
   JArray(<<>>), JArray(<<JReal(Real(1))>>), JArray(<<JReal(Real(1)), JReal(Real(2))>>),
   JObject(<<>>), JObject([width |-> JReal(Real(1)), height |-> JReal(Real(1)), depth |-> JReal(Real(1))])}
  \cup {JReal(d) : d \in NumberInputs}
  \cup {JString(s) : s \in U64Texts}

PrimitiveTypes ==
  {TInt32, TUint64, TUint32, TUint8, TFloat, TChar(VK_MAX_EXTENSION_NAME_SIZE),
   TArray(TUint32, 2), TVector(TUint32), TStruct("VkExtent3D"),
   TPair(TEnum("VkExternalFenceHandleTypeFlagBits"), TStruct("VkExternalFenceProperties")),
   TMap(TEnum("VkExternalFenceHandleTypeFlagBits"), TStruct("VkExternalFenceProperties"))}
  \cup {TEnum(e) : e \in EnumTypes}

\* an object whose every arithmetic field holds 7, every nibble 7, every text "old"
RECURSIVE Old(_)
Old(T) ==
  CASE T.k \in {"int32", "uint32", "uint8", "float", "enum"} -> Real(7)
    [] T.k = "uint64" -> [i \in 1..U64Digits |-> 7]
    [] T.k = "char" -> <<"o", "l", "d">>
    [] T.k = "array" -> [i \in 1..T.n |-> Old(T.of)]
    [] T.k = "vector" -> <<Old(T.of)>>
    [] T.k = "pair" -> <<Old(T.first), Old(T.second)>>
    [] T.k = "map" -> <<>>
    [] T.k = "struct" -> [f \in FieldNames(T.name) |-> Old(FieldType(T.name, f))]

\* a call: the function, the type it is instantiated for, the Json::Value
\* and the prior content of the target (decoding), the value (encoding), and
\* whether the Json::Value came from the caller or from the encoder
Call(fn, T, json, before, value, from) ==
  [fn |-> fn, T |-> T, json |-> json, before |-> before, value |-> value, from |-> from]

\* the calls are drawn one by one: their targets are of different types
PrimitiveCalls(c) ==
  \E T \in PrimitiveTypes, j \in JsonInputs : c = Call("AsValue", T, j, Old(T), Old(T), "caller")

FenceMap == TMap(TEnum("VkExternalFenceHandleTypeFlagBits"), TStruct("VkExternalFenceProperties"))

FenceProperties(n) ==
  [exportFromImportedHandleTypes |-> Real(n), compatibleHandleTypes |-> Real(n),
   externalFenceFeatures |-> Real(n)]

\* entries of a JSON map document: well-formed pairs over two keys and two
\* values, a one-element entry, and an entry whose key is no literal
MapEntries ==
  {JArray(<<JReal(Real(key)), ToJsonValue(TStruct("VkExternalFenceProperties"), FenceProperties(n))>>) :
     key \in {1, 2}, n \in {1, 2}}
  \cup {JArray(<<JReal(Real(1))>>),
        JArray(<<JReal(Real(3)), ToJsonValue(TStruct("VkExternalFenceProperties"), FenceProperties(1))>>)}

MapDocuments == UNION {{JArray(es) : es \in [1..n -> MapEntries]} : n \in 0..MaxElems}

MapCalls(c) ==
  \E j \in MapDocuments : c = Call("AsValue", FenceMap, j, <<>>, <<>>, "caller")

MapValues ==
  UNION {[keys -> {FenceProperties(1), FenceProperties(2)}] : keys \in SUBSET {Real(1), Real(2), Real(4)}}

\* the structures encoded and decoded again: every one modelled field by field
RoundTripStructs ==
  {"VkExtent3D", "VkImageFormatProperties", "VkPhysicalDeviceIDProperties", "VkFormatProperties",
   "VkExternalFenceProperties", "VkPhysicalDevicePointClippingProperties",
   "VkPhysicalDeviceMaintenance3Properties", "VkMemoryType", "VkMemoryHeap",
   "VkPhysicalDeviceMemoryProperties", "VkPhysicalDeviceVulkan14Properties"}

\* the fields of T that hold the element count of a sibling
SizeFields(T) ==
  {FieldType(T, f).size : f \in {g \in FieldNames(T) : FieldType(T, g).k \in {"list", "pointer"}}}

\* a populated object as the enumeration leaves it: every count n, every
\* variable-length field holding n elements (a pointer attached to storage of
\* n elements, null when n = 0), every other number 1 or the first enumerator
RECURSIVE Populated(_, _)
Populated(T, n) ==
  CASE T.k \in {"int32", "uint32", "uint8", "float"} -> Real(1)
    [] T.k = "enum" -> Real(CHOOSE e \in EnumTraits(T.name) : \A o \in EnumTraits(T.name) : e <= o)
    [] T.k = "uint64" -> U64Max
    [] T.k = "array" -> [i \in 1..T.n |-> Populated(T.of, n)]
    [] T.k = "list" -> [i \in 1..T.n |-> IF i <= n THEN Populated(T.of, n) ELSE Default(T.of)]
    [] T.k = "pointer" -> [null |-> n = 0, data |-> [i \in 1..n |-> Populated(T.of, n)], wild |-> FALSE]
    [] T.k = "struct" ->
         [f \in FieldNames(T.name) |->
            IF f \in SizeFields(T.name) THEN Real(n) ELSE Populated(FieldType(T.name, f), n)]

EncodeCalls(c) ==
  \/ \E v \in U64Values : c = Call("ToJsonValue", TUint64, JNull, U64Zero, v, "caller")
  \/ \E m \in MapValues : c = Call("ToJsonValue", FenceMap, JNull, <<>>, m, "caller")
  \/ \E T \in RoundTripStructs, n \in 0..MaxElems :
        c = Call("ToJsonValue", TStruct(T), JNull, Default(TStruct(T)),
                 Populated(TStruct(T), n), "caller")

\* documents for VkPhysicalDeviceIDProperties: each key absent, well-formed,
\* or holding an array of the wrong length or a value of the wrong kind
ArrayChoices == {"valid", "short", "long", "string", "absent"}

ScalarChoices == {"valid", "string", "absent"}

ArrayDocument(choice, N) ==
  CASE choice = "valid" -> JArray([i \in 1..N |-> JReal(Real(1))])
    [] choice = "short" -> JArray([i \in 1..(N - 1) |-> JReal(Real(1))])
    [] choice = "long" -> JArray([i \in 1..(N + 1) |-> JReal(Real(1))])
    [] choice = "string" -> JString(<<"1">>)

ScalarDocument(choice) ==
  CASE choice = "valid" -> JReal(Real(1))
    [] choice = "string" -> JString(<<"1">>)

IDPropertiesDocument(c) ==
  JObject([key \in {f \in FieldNames("VkPhysicalDeviceIDProperties") : c[f] # "absent"} |->
             IF FieldType("VkPhysicalDeviceIDProperties", key).k = "array"
             THEN ArrayDocument(c[key], FieldType("VkPhysicalDeviceIDProperties", key).n)
             ELSE ScalarDocument(c[key])])

IDPropertiesChoices ==
  {c \in [FieldNames("VkPhysicalDeviceIDProperties") -> ArrayChoices \cup ScalarChoices] :
     \A f \in DOMAIN c :
        FieldType("VkPhysicalDeviceIDProperties", f).k # "array" => c[f] \in ScalarChoices}

IterateCalls(c) ==
  \E choice \in IDPropertiesChoices :
     c = Call("Iterate", TStruct("VkPhysicalDeviceIDProperties"), IDPropertiesDocument(choice),
              Old(TStruct("VkPhysicalDeviceIDProperties")),
              Old(TStruct("VkPhysicalDeviceIDProperties")), "caller")

EngineInit ==
  /\ pc = "call"
  /\ PrimitiveCalls(call) \/ MapCalls(call) \/ EncodeCalls(call) \/ IterateCalls(call)
  /\ target = call.before
  /\ ret = FALSE
  /\ errors = Nullptr
  /\ visited = <<>>
  /\ branch = "none"
  /\ out = JNull

\* the decode wrote through a pointer that pointed to no storage
Wild(T, value) ==
  /\ T.k = "struct"
  /\ \E f \in FieldNames(T.name) : FieldType(T.name, f).k = "pointer" /\ value[f].wild

\* bool AsValue(Json::Value* json_value, T* t), for the overload of kind k;
\* after a write through a pointer without storage the behaviour is
\* undefined: the call may return either value, the target stays marked
Decode(k) ==
  /\ pc = "call"
  /\ call.fn = "AsValue"
  /\ call.T.k = k
  /\ \E r \in {AsValue(call.T, call.json, target)}, b \in BOOLEAN :
        /\ ~Wild(call.T, r.val) => b = r.ok
        /\ target' = r.val
        /\ ret' = b
  /\ pc' = "done"
  /\ UNCHANGED <<call, errors, visited, branch, out>>

DecodeInt32 == Decode("int32")

DecodeUint64 == Decode("uint64")

DecodeUint32 == Decode("uint32")

DecodeUint8 == Decode("uint8")

DecodeFloat == Decode("float")

DecodeEnum == Decode("enum")

DecodeArray == Decode("array")

DecodeChar == Decode("char")

DecodeVector == Decode("vector")

DecodePair == Decode("pair")

DecodeMap == Decode("map")

DecodeStruct == Decode("struct")

\* Iterate(&visitor, t) with visitor a JsonReaderVisitor(object, errors)
IterateCall ==
  /\ pc = "call"
  /\ call.fn = "Iterate"
  /\ \E r \in {Iterate(call.T.name, call.json, errors, target)} :
        /\ target' = r.val
        /\ ret' = r.ok
        /\ errors' = r.errors
        /\ visited' = r.visited
        /\ branch' = r.branch
  /\ pc' = "done"
  /\ UNCHANGED <<call, out>>

\* Json::Value ToJsonValue(const T& value)
Encode ==
  /\ pc = "call"
  /\ call.fn = "ToJsonValue"
  /\ out' = ToJsonValue(call.T, call.value)
  /\ pc' = "done"
  /\ UNCHANGED <<call, target, ret, errors, visited, branch>>

\* the caller hands the encoded value to the decoder, with a fresh target
DecodeEncoded ==
  /\ pc = "done"
  /\ call.fn = "ToJsonValue"
  /\ call' = Call("AsValue", call.T, out, Default(call.T), call.value, "encoder")
  /\ target' = Default(call.T)
  /\ pc' = "call"
  /\ UNCHANGED <<ret, errors, visited, branch, out>>

EngineNext ==
  \/ DecodeInt32 \/ DecodeUint64 \/ DecodeUint32 \/ DecodeUint8 \/ DecodeFloat
  \/ DecodeEnum \/ DecodeArray \/ DecodeChar \/ DecodeVector \/ DecodePair
  \/ DecodeMap \/ DecodeStruct \/ IterateCall \/ Encode \/ DecodeEncoded

SpecEngine == EngineInit /\ [][EngineNext]_vars

(***************************************************************************)
(* The public entry points, one call at a time: Init draws the call, the   *)
(* snapshot or the text handed in, the prior content of the output object  *)
(* and the errors pointer.                                                 *)
(***************************************************************************)
\* the minor versions of the devices encoded run from 0 to MaxMinor, their
\* patch versions from 0 to MaxPatch
MaxMinor == 5

MaxPatch == 1

ApiVersions ==
  {Zero, VK_MAKE_API_VERSION(1, 1, 3, 0), VK_MAKE_API_VERSION(0, 2, 0, 0)}
  \cup {VK_MAKE_API_VERSION(0, 1, minor, patch) : minor \in 0..MaxMinor, patch \in 0..MaxPatch}

\* the extensions a device reports: none, one, two neighbours of the table,
\* or all of them
ReportedSets ==
  {{}, ExtensionNames}
  \cup {{e} : e \in ExtensionNames}
  \cup {{Extensions[i], Extensions[i + 1]} : i \in 1..(Len(Extensions) - 1)}

\* a member of a device whose every field holds n
Filled(T, n) ==
  CASE T.k = "opaque" -> Real(n)
    [] T.k = "map" -> IF n = 0 THEN <<>> ELSE [key \in {Real(1)} |-> FenceProperties(n)]
    [] T.k = "struct" ->
         [apiVersion |-> Real(n), driverVersion |-> Real(n), vendorID |-> Real(n),
          deviceID |-> Real(n), deviceType |-> Real(n),
          deviceName |-> IF n = 0 THEN <<>> ELSE <<"g", "p", "u">>,
          pipelineCacheUUID |-> [i \in 1..VK_UUID_SIZE |-> Real(n)],
          limits |-> Real(n), sparseProperties |-> Real(n)]

\* a device of the given API version that reports the given extensions, every
\* field of a wrapper holding m and every other field n
Device(apiVersion, n, reported, m) ==
  [key \in DeviceMembers |->
     IF key \in ExtensionNames THEN [reported |-> key \in reported, fields |-> Real(m)]
     ELSE IF key = "properties"
     THEN [Filled(MemberType(key), n) EXCEPT !.apiVersion = apiVersion]
     ELSE Filled(MemberType(key), n)]

Devices ==
  {Device(apiVersion, n, reported, m) :
     apiVersion \in ApiVersions, n \in {0, 1}, reported \in ReportedSets,
     m \in {0, 1}}

\* the object a caller hands in: fresh, or left by an earlier use
OldDevice == Device(VK_MAKE_API_VERSION(0, 1, 4, 1), 7, {Extensions[1], Extensions[Len(Extensions)]}, 7)

ImageFormatProperties(n) ==
  [maxExtent |-> [width |-> Real(n), height |-> Real(n), depth |-> Real(n)],
   maxMipLevels |-> Real(n), maxArrayLayers |-> Real(n), sampleCounts |-> Real(n),
   maxResourceSize |-> [i \in 1..U64Digits |-> n]]

\* a document with the given keys taken out
Without(object, keys) ==
  JObject([key \in DOMAIN object.members \ keys |-> object.members[key]])

\* a document whose given key holds a string
WithString(object, key) ==
  JObject([object.members EXCEPT ![key] = JString(<<"1">>)])

\* documents handed to VkJsonDeviceFromJson: the encodings of devices of
\* every tier, whole, with a key taken out, or with a key of the wrong kind
DeviceDocuments ==
  UNION {{Without(ToJsonValue(TDevice, d), keys) :
            keys \in {{}, {"queues"}, {"formats"}, {"properties"}, {"core14"}}}
         \cup {WithString(ToJsonValue(TDevice, d), "queues")} :
         d \in {Device(VK_MAKE_API_VERSION(0, 1, minor, 0), 1, reported, 1) :
                  minor \in 0..4, reported \in {{}, {Extensions[1]}}}}

DeviceTexts ==
  {Malformed, Text(JArray(<<>>)), Text(JReal(Real(1))), Text(JNull), Text(JObject(<<>>))}
  \cup {Text(j) : j \in DeviceDocuments}

\* documents handed to VkJsonImageFormatPropertiesFromJson: each key
\* well-formed, absent or of the wrong kind, the nested object also with a
\* key of its own absent or of the wrong kind
ExtentChoices == {"valid", "string", "absent", "nested absent", "nested string"}

ExtentDocument(choice) ==
  CASE choice = "valid" -> ToJsonValue(TStruct("VkExtent3D"), ImageFormatProperties(1).maxExtent)
    [] choice = "string" -> JString(<<"1">>)
    [] choice = "nested absent" ->
         JObject([width |-> JReal(Real(1)), height |-> JReal(Real(1))])
    [] choice = "nested string" ->
         JObject([width |-> JReal(Real(1)), height |-> JReal(Real(1)), depth |-> JString(<<"1">>)])

FieldDocument(T, choice) ==
  CASE choice = "valid" -> IF T.k = "uint64" THEN ToJsonValueUint64(ImageFormatProperties(1).maxResourceSize)
                           ELSE JReal(Real(1))
    [] choice = "string" -> IF T.k = "uint64" THEN JReal(Real(1)) ELSE JString(<<"1">>)

ImageFormatPropertiesDocument(c) ==
  JObject([key \in {f \in FieldNames("VkImageFormatProperties") : c[f] # "absent"} |->
             IF key = "maxExtent" THEN ExtentDocument(c[key])
             ELSE FieldDocument(FieldType("VkImageFormatProperties", key), c[key])])

ImageFormatPropertiesChoices ==
  {c \in [FieldNames("VkImageFormatProperties") -> ExtentChoices] :
     \A f \in DOMAIN c : f # "maxExtent" => c[f] \in ScalarChoices}

ImageFormatPropertiesTexts ==
  {Malformed, Text(JArray(<<>>)), Text(JString(<<"1">>))}
  \cup {Text(ImageFormatPropertiesDocument(c)) : c \in ImageFormatPropertiesChoices}

\* snapshots handed to VkJsonInstanceToJson: every api_version, among them
\* the 0 of VkJsonInstance(), with no device or one
Instances ==
  {[apiVersion |-> apiVersion, deviceGroups |-> groups, layers |-> <<>>, extensions |-> <<>>,
    devices |-> devices] :
     apiVersion \in ApiVersions, groups \in {<<>>, <<Real(1)>>},
     devices \in {<<>>, <<Device(VK_API_VERSION_1_0, 1, {}, 1)>>}}

\* the object a caller hands to VkJsonInstanceFromJson after an earlier use
OldInstance ==
  [apiVersion |-> VK_MAKE_API_VERSION(0, 1, 4, 1), deviceGroups |-> <<Real(7)>>, layers |-> <<>>,
   extensions |-> <<>>, devices |-> <<OldDevice>>]

\* texts handed to VkJsonInstanceFromJson: malformed, no object, the empty
\* object, the encodings of instances, and objects whose keys hold a string
InstanceTexts ==
  {Malformed, Text(JArray(<<>>)), Text(JNull), Text(JObject(<<>>)),
   Text(JObject([apiVersion |-> JString(<<"1">>), devices |-> JString(<<"1">>)]))}
  \cup {Text(ToJsonValue(TInstance, i)) :
          i \in {n \in Instances : n.apiVersion \in {VK_API_VERSION_1_0, VK_API_VERSION_1_2,
                                                     VK_API_VERSION_1_4}}}

PublicCalls(c) ==
  \/ \E i \in Instances :
        c = Call("VkJsonInstanceToJson", TInstance, Malformed, i, i, "caller")
  \/ \E json \in InstanceTexts, before \in {Default(TInstance), OldInstance} :
        c = Call("VkJsonInstanceFromJson", TInstance, json, before, before, "caller")
  \/ \E d \in Devices :
        c = Call("VkJsonDeviceToJson", TDevice, Malformed, Default(TDevice), d, "caller")
  \/ \E json \in DeviceTexts, before \in {Default(TDevice), OldDevice} :
        c = Call("VkJsonDeviceFromJson", TDevice, json, before, before, "caller")
  \/ \E n \in {0, 1, 15} :
        c = Call("VkJsonImageFormatPropertiesToJson", TStruct("VkImageFormatProperties"),
                 Malformed, Default(TStruct("VkImageFormatProperties")),
                 ImageFormatProperties(n), "caller")
  \/ \E json \in ImageFormatPropertiesTexts :
        c = Call("VkJsonImageFormatPropertiesFromJson", TStruct("VkImageFormatProperties"),
                 json, Old(TStruct("VkImageFormatProperties")),
                 Old(TStruct("VkImageFormatProperties")), "caller")

Init ==
  /\ pc = "call"
  /\ PublicCalls(call)
  /\ target = call.before
  /\ ret = FALSE
  /\ errors \in IF call.fn \in {"VkJsonInstanceFromJson", "VkJsonDeviceFromJson",
                                 "VkJsonImageFormatPropertiesFromJson"}
                THEN {Nullptr, ErrorString("")}
                ELSE {Nullptr}
  /\ visited = <<>>
  /\ branch = "none"
  /\ out = JNull

\* std::string VkTypeToJson(const T& t), for the entry point fn
ToJson(fn) ==
  /\ pc = "call"
  /\ call.fn = fn
  /\ out' = VkTypeToJson(call.T, call.value).root
  /\ visited' = IF call.T = TDevice THEN Flatten(DeviceStatements(call.value))
                ELSE IF call.T = TInstance THEN InstanceStatements(call.value)
                ELSE visited
  /\ pc' = "done"
  /\ UNCHANGED <<call, target, ret, errors, branch>>

\* bool VkTypeFromJson(const std::string& json, T* t, std::string* errors),
\* for the entry point fn
FromJson(fn) ==
  /\ pc = "call"
  /\ call.fn = fn
  /\ \E r \in {VkTypeFromJson(call.T, call.json, target, errors)} :
        /\ target' = r.val
        /\ ret' = r.ok
        /\ errors' = r.errors
  /\ pc' = "done"
  /\ UNCHANGED <<call, visited, branch, out>>

VkJsonInstanceToJson == ToJson("VkJsonInstanceToJson")

VkJsonInstanceFromJson == FromJson("VkJsonInstanceFromJson")

VkJsonDeviceToJson == ToJson("VkJsonDeviceToJson")

VkJsonDeviceFromJson == FromJson("VkJsonDeviceFromJson")

VkJsonImageFormatPropertiesToJson == ToJson("VkJsonImageFormatPropertiesToJson")

VkJsonImageFormatPropertiesFromJson == FromJson("VkJsonImageFormatPropertiesFromJson")

\* the caller hands the text encoded to the matching FromJson, with an
\* output object left by an earlier use
FromEncoded ==
  /\ pc = "done"
  /\ call.from = "caller"
  /\ call.fn \in {"VkJsonDeviceToJson", "VkJsonImageFormatPropertiesToJson"}
  /\ call' = Call(IF call.T = TDevice THEN "VkJsonDeviceFromJson"
                  ELSE "VkJsonImageFormatPropertiesFromJson",
                  call.T, Text(out),
                  IF call.T = TDevice THEN OldDevice ELSE Old(call.T),
                  call.value, "encoder")
  /\ target' = IF call.T = TDevice THEN OldDevice ELSE Old(call.T)
  /\ pc' = "call"
  /\ ret' = FALSE
  /\ errors' = ErrorString("")
  /\ UNCHANGED <<visited, branch, out>>

Next ==
  \/ VkJsonInstanceToJson
  \/ VkJsonInstanceFromJson
  \/ VkJsonDeviceToJson
  \/ VkJsonDeviceFromJson
  \/ VkJsonImageFormatPropertiesToJson
  \/ VkJsonImageFormatPropertiesFromJson
  \/ FromEncoded

Spec == Init /\ [][Next]_vars

(***************************************************************************)
(* The generator.  A name is the sequence of its characters; the tables of *)
(* vk.py are written word by word and spelled out by Name.                 *)
(***************************************************************************)
Upper ==
  <<"A", "B", "C", "D", "E", "F", "G", "H", "I", "J", "K", "L", "M", "N", "O", "P", "Q", "R", "S", "T", "U", "V", "W", "X", "Y", "Z">>

Lower ==
  <<"a", "b", "c", "d", "e", "f", "g", "h", "i", "j", "k", "l", "m", "n", "o", "p", "q", "r", "s", "t", "u", "v", "w", "x", "y", "z">>

isupper(c) == \E i \in 1..Len(Upper) : Upper[i] = c

\* str.lower and str.upper on one character
LowerChar(c) == IF isupper(c) THEN Lower[CHOOSE i \in 1..Len(Upper) : Upper[i] = c] ELSE c

UpperChar(c) ==
  IF \E i \in 1..Len(Lower) : Lower[i] = c
  THEN Upper[CHOOSE i \in 1..Len(Lower) : Lower[i] = c]
  ELSE c

lower(s) == [i \in 1..Len(s) |-> LowerChar(s[i])]

startswith(s, prefix) == Len(prefix) <= Len(s) /\ SubSeq(s, 1, Len(prefix)) = prefix

endswith(s, suffix) ==
  Len(suffix) <= Len(s) /\ SubSeq(s, Len(s) - Len(suffix) + 1, Len(s)) = suffix

removeprefix(s, prefix) ==
  IF startswith(s, prefix) THEN SubSeq(s, Len(prefix) + 1, Len(s)) ELSE s

removesuffix(s, suffix) ==
  IF endswith(s, suffix) THEN SubSeq(s, 1, Len(s) - Len(suffix)) ELSE s

\* s.replace(old, new), from place i on: the occurrences from left to right,
\* none overlapping another
RECURSIVE replaceFrom(_, _, _, _)
replaceFrom(s, old, new, i) ==
  IF i > Len(s) THEN <<>>
  ELSE IF i + Len(old) - 1 <= Len(s) /\ SubSeq(s, i, i + Len(old) - 1) = old
  THEN new \o replaceFrom(s, old, new, i + Len(old))
  ELSE <<s[i]>> \o replaceFrom(s, old, new, i + 1)

replace(s, old, new) == replaceFrom(s, old, new, 1)

\* re.sub(r"(?<!^)(?=[A-Z])", "_", s), from place i on: an underscore before
\* every capital letter that is not the first character
RECURSIVE CamelToSnake(_, _)
CamelToSnake(s, i) ==
  IF i > Len(s) THEN <<>>
  ELSE (IF i > 1 /\ isupper(s[i]) THEN <<"_">> ELSE <<>>) \o <<s[i]>> \o CamelToSnake(s, i + 1)

\* re.sub(r"_(.)", lambda m: m.group(1).upper(), s), from place i on: an
\* underscore and the character after it become that character in upper case
RECURSIVE SnakeToCamel(_, _)
SnakeToCamel(s, i) ==
  IF i > Len(s) THEN <<>>
  ELSE IF s[i] = "_" /\ i < Len(s)
  THEN <<UpperChar(s[i + 1])>> \o SnakeToCamel(s, i + 2)
  ELSE <<s[i]>> \o SnakeToCamel(s, i + 1)

\* the characters of the words the tables are written in
Spell(word) ==
  CASE word = "Vk" -> <<"V", "k">>
    [] word = "Physical" -> <<"P", "h", "y", "s", "i", "c", "a", "l">>
    [] word = "Device" -> <<"D", "e", "v", "i", "c", "e">>
    [] word = "Float" -> <<"F", "l", "o", "a", "t">>
    [] word = "Controls" -> <<"C", "o", "n", "t", "r", "o", "l", "s">>
    [] word = "Properties" -> <<"P", "r", "o", "p", "e", "r", "t", "i", "e", "s">>
    [] word = "KHR" -> <<"K", "H", "R">>
    [] word = "Memory" -> <<"M", "e", "m", "o", "r", "y">>
    [] word = "Subgroup" -> <<"S", "u", "b", "g", "r", "o", "u", "p">>
    [] word = "Point" -> <<"P", "o", "i", "n", "t">>
    [] word = "Clipping" -> <<"C", "l", "i", "p", "p", "i", "n", "g">>
    [] word = "Multiview" -> <<"M", "u", "l", "t", "i", "v", "i", "e", "w">>
    [] word = "ID" -> <<"I", "D">>
    [] word = "Maintenance" -> <<"M", "a", "i", "n", "t", "e", "n", "a", "n", "c", "e">>
    [] word = "3" -> <<"3">>
    [] word = "Sparse" -> <<"S", "p", "a", "r", "s", "e">>
    [] word = "Image" -> <<"I", "m", "a", "g", "e">>
    [] word = "Format" -> <<"F", "o", "r", "m", "a", "t">>
    [] word = "Queue" -> <<"Q", "u", "e", "u", "e">>
    [] word = "Family" -> <<"F", "a", "m", "i", "l", "y">>
    [] word = "Extension" -> <<"E", "x", "t", "e", "n", "s", "i", "o", "n">>
    [] word = "Layer" -> <<"L", "a", "y", "e", "r">>
    [] word = "Variable" -> <<"V", "a", "r", "i", "a", "b", "l", "e">>
    [] word = "Pointer" -> <<"P", "o", "i", "n", "t", "e", "r">>
    [] word = "Features" -> <<"F", "e", "a", "t", "u", "r", "e", "s">>
    [] word = "Pointers" -> <<"P", "o", "i", "n", "t", "e", "r", "s">>
    [] word = "Shader" -> <<"S", "h", "a", "d", "e", "r">>
    [] word = "16" -> <<"1", "6">>
    [] word = "Int" -> <<"I", "n", "t">>
    [] word = "8" -> <<"8">>
    [] word = "2" -> <<"2">>
    [] word = "D" -> <<"D">>
    [] word = "View" -> <<"V", "i", "e", "w">>
    [] word = "Of" -> <<"O", "f">>
    [] word = "EXT" -> <<"E", "X", "T">>
    [] word = "Custom" -> <<"C", "u", "s", "t", "o", "m">>
    [] word = "Border" -> <<"B", "o", "r", "d", "e", "r">>
    [] word = "Color" -> <<"C", "o", "l", "o", "r">>
    [] word = "Primitive" -> <<"P", "r", "i", "m", "i", "t", "i", "v", "e">>
    [] word = "Topology" -> <<"T", "o", "p", "o", "l", "o", "g", "y">>
    [] word = "List" -> <<"L", "i", "s", "t">>
    [] word = "Restart" -> <<"R", "e", "s", "t", "a", "r", "t">>
    [] word = "Provoking" -> <<"P", "r", "o", "v", "o", "k", "i", "n", "g">>
    [] word = "Vertex" -> <<"V", "e", "r", "t", "e", "x">>
    [] word = "Index" -> <<"I", "n", "d", "e", "x">>
    [] word = "Type" -> <<"T", "y", "p", "e">>
    [] word = "Uint" -> <<"U", "i", "n", "t">>
    [] word = "Attribute" -> <<"A", "t", "t", "r", "i", "b", "u", "t", "e">>
    [] word = "Divisor" -> <<"D", "i", "v", "i", "s", "o", "r">>
    [] word = "Transform" -> <<"T", "r", "a", "n", "s", "f", "o", "r", "m">>
    [] word = "Feedback" -> <<"F", "e", "e", "d", "b", "a", "c", "k">>
    [] word = "Uniform" -> <<"U", "n", "i", "f", "o", "r", "m">>
    [] word = "Control" -> <<"C", "o", "n", "t", "r", "o", "l">>
    [] word = "Flow" -> <<"F", "l", "o", "w">>
    [] word = "Extended" -> <<"E", "x", "t", "e", "n", "d", "e", "d">>
    [] word = "Types" -> <<"T", "y", "p", "e", "s">>
    [] word = "Bit" -> <<"B", "i", "t">>
    [] word = "Storage" -> <<"S", "t", "o", "r", "a", "g", "e">>
    [] word = "Integer" -> <<"I", "n", "t", "e", "g", "e", "r">>
    [] word = "Dot" -> <<"D", "o", "t">>
    [] word = "Product" -> <<"P", "r", "o", "d", "u", "c", "t">>
    [] word = "Relaxed" -> <<"R", "e", "l", "a", "x", "e", "d">>
    [] word = "Line" -> <<"L", "i", "n", "e">>
    [] word = "Rasterization" -> <<"R", "a", "s", "t", "e", "r", "i", "z", "a", "t", "i", "o", "n">>
    [] word = "IMG" -> <<"I", "M", "G">>
    [] word = "Primitives" -> <<"P", "r", "i", "m", "i", "t", "i", "v", "e", "s">>
    [] word = "Generated" -> <<"G", "e", "n", "e", "r", "a", "t", "e", "d">>
    [] word = "Query" -> <<"Q", "u", "e", "r", "y">>
    [] word = "Protected" -> <<"P", "r", "o", "t", "e", "c", "t", "e", "d">>
    [] word = "Sampler" -> <<"S", "a", "m", "p", "l", "e", "r">>
    [] word = "Ycbcr" -> <<"Y", "c", "b", "c", "r">>
    [] word = "Conversion" -> <<"C", "o", "n", "v", "e", "r", "s", "i", "o", "n">>
    [] word = "Draw" -> <<"D", "r", "a", "w">>
    [] word = "Parameter" -> <<"P", "a", "r", "a", "m", "e", "t", "e", "r">>
    [] word = "Limits" -> <<"L", "i", "m", "i", "t", "s">>
    [] word = "Vulkan" -> <<"V", "u", "l", "k", "a", "n">>
    [] word = "11" -> <<"1", "1">>
    [] word = "12" -> <<"1", "2">>
    [] word = "13" -> <<"1", "3">>
    [] word = "14" -> <<"1", "4">>
    [] word = "Driver" -> <<"D", "r", "i", "v", "e", "r">>
    [] word = "Parameters" -> <<"P", "a", "r", "a", "m", "e", "t", "e", "r", "s">>
    [] word = "VK" -> <<"V", "K">>
    [] word = "_" -> <<"_">>
    [] word = "variable" -> <<"v", "a", "r", "i", "a", "b", "l", "e">>
    [] word = "pointers" -> <<"p", "o", "i", "n", "t", "e", "r", "s">>
    [] word = "shader" -> <<"s", "h", "a", "d", "e", "r">>
    [] word = "float16" -> <<"f", "l", "o", "a", "t", "1", "6">>
    [] word = "int8" -> <<"i", "n", "t", "8">>
    [] word = "image" -> <<"i", "m", "a", "g", "e">>
    [] word = "2d" -> <<"2", "d">>
    [] word = "view" -> <<"v", "i", "e", "w">>
    [] word = "of" -> <<"o", "f">>
    [] word = "3d" -> <<"3", "d">>
    [] word = "custom" -> <<"c", "u", "s", "t", "o", "m">>
    [] word = "border" -> <<"b", "o", "r", "d", "e", "r">>
    [] word = "color" -> <<"c", "o", "l", "o", "r">>
    [] word = "primitive" -> <<"p", "r", "i", "m", "i", "t", "i", "v", "e">>
    [] word = "topology" -> <<"t", "o", "p", "o", "l", "o", "g", "y">>
    [] word = "list" -> <<"l", "i", "s", "t">>
    [] word = "restart" -> <<"r", "e", "s", "t", "a", "r", "t">>
    [] word = "provoking" -> <<"p", "r", "o", "v", "o", "k", "i", "n", "g">>
    [] word = "vertex" -> <<"v", "e", "r", "t", "e", "x">>
    [] word = "index" -> <<"i", "n", "d", "e", "x">>
    [] word = "type" -> <<"t", "y", "p", "e">>
    [] word = "uint8" -> <<"u", "i", "n", "t", "8">>
    [] word = "attribute" -> <<"a", "t", "t", "r", "i", "b", "u", "t", "e">>
    [] word = "divisor" -> <<"d", "i", "v", "i", "s", "o", "r">>
    [] word = "transform" -> <<"t", "r", "a", "n", "s", "f", "o", "r", "m">>
    [] word = "feedback" -> <<"f", "e", "e", "d", "b", "a", "c", "k">>
    [] word = "subgroup" -> <<"s", "u", "b", "g", "r", "o", "u", "p">>
    [] word = "uniform" -> <<"u", "n", "i", "f", "o", "r", "m">>
    [] word = "control" -> <<"c", "o", "n", "t", "r", "o", "l">>
    [] word = "flow" -> <<"f", "l", "o", "w">>
    [] word = "extended" -> <<"e", "x", "t", "e", "n", "d", "e", "d">>
    [] word = "types" -> <<"t", "y", "p", "e", "s">>
    [] word = "8bit" -> <<"8", "b", "i", "t">>
    [] word = "storage" -> <<"s", "t", "o", "r", "a", "g", "e">>
    [] word = "integer" -> <<"i", "n", "t", "e", "g", "e", "r">>
    [] word = "dot" -> <<"d", "o", "t">>
    [] word = "product" -> <<"p", "r", "o", "d", "u", "c", "t">>
    [] word = "relaxed" -> <<"r", "e", "l", "a", "x", "e", "d">>
    [] word = "line" -> <<"l", "i", "n", "e">>
    [] word = "rasterization" -> <<"r", "a", "s", "t", "e", "r", "i", "z", "a", "t", "i", "o", "n">>
    [] word = "primitives" -> <<"p", "r", "i", "m", "i", "t", "i", "v", "e", "s">>
    [] word = "generated" -> <<"g", "e", "n", "e", "r", "a", "t", "e", "d">>
    [] word = "query" -> <<"q", "u", "e", "r", "y">>
    [] word = "float" -> <<"f", "l", "o", "a", "t">>
    [] word = "controls" -> <<"c", "o", "n", "t", "r", "o", "l", "s">>
    [] word = "driver" -> <<"d", "r", "i", "v", "e", "r">>
    [] word = "properties" -> <<"p", "r", "o", "p", "e", "r", "t", "i", "e", "s">>
    [] word = "ANDROID" -> <<"A", "N", "D", "R", "O", "I", "D">>
    [] word = "external" -> <<"e", "x", "t", "e", "r", "n", "a", "l">>
    [] word = "memory" -> <<"m", "e", "m", "o", "r", "y">>
    [] word = "GOOGLE" -> <<"G", "O", "O", "G", "L", "E">>
    [] word = "display" -> <<"d", "i", "s", "p", "l", "a", "y">>
    [] word = "timing" -> <<"t", "i", "m", "i", "n", "g">>
    [] word = "1" -> <<"1">>
    [] word = "Debug" -> <<"D", "e", "b", "u", "g">>
    [] word = "Utils" -> <<"U", "t", "i", "l", "s">>
    [] word = "Json" -> <<"J", "s", "o", "n">>
    [] word = "Ext" -> <<"E", "x", "t">>
    [] word = "16bit" -> <<"1", "6", "b", "i", "t">>
    [] word = "4444" -> <<"4", "4", "4", "4">>
    [] word = "formats" -> <<"f", "o", "r", "m", "a", "t", "s">>
    [] word = "filter" -> <<"f", "i", "l", "t", "e", "r">>
    [] word = "cubic" -> <<"c", "u", "b", "i", "c">>
    [] word = "NV" -> <<"N", "V">>
    [] word = "ray" -> <<"r", "a", "y">>
    [] word = "tracing" -> <<"t", "r", "a", "c", "i", "n", "g">>
    [] word = "Core" -> <<"C", "o", "r", "e">>

\* the name a list of words spells
RECURSIVE Name(_)
Name(ws) == IF ws = <<>> THEN <<>> ELSE Spell(Head(ws)) \o Name(Tail(ws))

\* the name as one string
RECURSIVE Join(_)
Join(s) == IF s = <<>> THEN "" ELSE Head(s) \o Join(Tail(s))

\* ALL_STRUCTS of vk.py, as written: canonical names and aliases
ALL_STRUCTS ==
  <<<<"Vk", "Physical", "Device", "Float", "Controls", "Properties", "KHR">>,
    <<"Vk", "Physical", "Device", "Properties">>,
    <<"Vk", "Physical", "Device", "Memory", "Properties">>,
    <<"Vk", "Physical", "Device", "Subgroup", "Properties">>,
    <<"Vk", "Physical", "Device", "Point", "Clipping", "Properties">>,
    <<"Vk", "Physical", "Device", "Multiview", "Properties">>,
    <<"Vk", "Physical", "Device", "ID", "Properties">>,
    <<"Vk", "Physical", "Device", "Maintenance", "3", "Properties">>,
    <<"Vk", "Physical", "Device", "Sparse", "Properties">>,
    <<"Vk", "Image", "Format", "Properties">>,
    <<"Vk", "Queue", "Family", "Properties">>,
    <<"Vk", "Extension", "Properties">>,
    <<"Vk", "Layer", "Properties">>,
    <<"Vk", "Format", "Properties">>,
    <<"Vk", "Physical", "Device", "Variable", "Pointer", "Features", "KHR">>,
    <<"Vk", "Physical", "Device", "Variable", "Pointers", "Features", "KHR">>,
    <<"Vk", "Physical", "Device", "Shader", "Float", "16", "Int", "8", "Features", "KHR">>,
    <<"Vk", "Physical", "Device", "Float", "16", "Int", "8", "Features", "KHR">>,
    <<"Vk", "Physical", "Device", "Image", "2", "D", "View", "Of", "3", "D", "Features", "EXT">>,
    <<"Vk", "Physical", "Device", "Custom", "Border", "Color", "Features", "EXT">>,
    <<"Vk", "Physical", "Device", "Primitive", "Topology", "List", "Restart", "Features", "EXT">>,
    <<"Vk", "Physical", "Device", "Provoking", "Vertex", "Features", "EXT">>,
    <<"Vk", "Physical", "Device", "Index", "Type", "Uint", "8", "Features", "KHR">>,
    <<"Vk", "Physical", "Device", "Index", "Type", "Uint", "8", "Features", "EXT">>,
    <<"Vk", "Physical", "Device", "Vertex", "Attribute", "Divisor", "Features", "KHR">>,
    <<"Vk", "Physical", "Device", "Vertex", "Attribute", "Divisor", "Features", "EXT">>,
    <<"Vk", "Physical", "Device", "Transform", "Feedback", "Features", "EXT">>,
    <<"Vk", "Physical", "Device", "Shader", "Subgroup", "Uniform", "Control", "Flow", "Features", "KHR">>,
    <<"Vk", "Physical", "Device", "Shader", "Subgroup", "Extended", "Types", "Features", "KHR">>,
    <<"Vk", "Physical", "Device", "8", "Bit", "Storage", "Features", "KHR">>,
    <<"Vk", "Physical", "Device", "Shader", "Integer", "Dot", "Product", "Features", "KHR">>,
    <<"Vk", "Physical", "Device", "Relaxed", "Line", "Rasterization", "Features", "IMG">>,
    <<"Vk", "Physical", "Device", "Line", "Rasterization", "Features", "KHR">>,
    <<"Vk", "Physical", "Device", "Line", "Rasterization", "Features", "EXT">>,
    <<"Vk", "Physical", "Device", "Primitives", "Generated", "Query", "Features", "EXT">>,
    <<"Vk", "Physical", "Device", "16", "Bit", "Storage", "Features">>,
    <<"Vk", "Physical", "Device", "Multiview", "Features">>,
    <<"Vk", "Physical", "Device", "Protected", "Memory", "Features">>,
    <<"Vk", "Physical", "Device", "Sampler", "Ycbcr", "Conversion", "Features">>,
    <<"Vk", "Physical", "Device", "Shader", "Draw", "Parameter", "Features">>,
    <<"Vk", "Physical", "Device", "Limits">>,
    <<"Vk", "Physical", "Device", "Features">>,
    <<"Vk", "Physical", "Device", "Vulkan", "11", "Properties">>,
    <<"Vk", "Physical", "Device", "Vulkan", "11", "Features">>,
    <<"Vk", "Physical", "Device", "Vulkan", "12", "Properties">>,
    <<"Vk", "Physical", "Device", "Vulkan", "12", "Features">>,
    <<"Vk", "Physical", "Device", "Vulkan", "13", "Properties">>,
    <<"Vk", "Physical", "Device", "Vulkan", "13", "Features">>,
    <<"Vk", "Physical", "Device", "Vulkan", "14", "Properties">>,
    <<"Vk", "Physical", "Device", "Vulkan", "14", "Features">>,
    <<"Vk", "Physical", "Device", "Driver", "Properties">>>>

\* "Defining alias for structures": each alias with the class it is bound to
Aliases ==
  <<<<<<"Vk", "Physical", "Device", "Line", "Rasterization", "Features", "EXT">>,
      <<"Vk", "Physical", "Device", "Line", "Rasterization", "Features">>>>,
    <<<<"Vk", "Physical", "Device", "Line", "Rasterization", "Features", "KHR">>,
      <<"Vk", "Physical", "Device", "Line", "Rasterization", "Features">>>>,
    <<<<"Vk", "Physical", "Device", "Shader", "Integer", "Dot", "Product", "Features", "KHR">>,
      <<"Vk", "Physical", "Device", "Shader", "Integer", "Dot", "Product", "Features">>>>,
    <<<<"Vk", "Physical", "Device", "8", "Bit", "Storage", "Features", "KHR">>,
      <<"Vk", "Physical", "Device", "8", "Bit", "Storage", "Features">>>>,
    <<<<"Vk", "Physical", "Device", "Shader", "Subgroup", "Extended", "Types", "Features", "KHR">>,
      <<"Vk", "Physical", "Device", "Shader", "Subgroup", "Extended", "Types", "Features">>>>,
    <<<<"Vk", "Physical", "Device", "Vertex", "Attribute", "Divisor", "Features", "KHR">>,
      <<"Vk", "Physical", "Device", "Vertex", "Attribute", "Divisor", "Features">>>>,
    <<<<"Vk", "Physical", "Device", "Vertex", "Attribute", "Divisor", "Features", "EXT">>,
      <<"Vk", "Physical", "Device", "Vertex", "Attribute", "Divisor", "Features">>>>,
    <<<<"Vk", "Physical", "Device", "Index", "Type", "Uint", "8", "Features", "KHR">>,
      <<"Vk", "Physical", "Device", "Index", "Type", "Uint", "8", "Features">>>>,
    <<<<"Vk", "Physical", "Device", "Index", "Type", "Uint", "8", "Features", "EXT">>,
      <<"Vk", "Physical", "Device", "Index", "Type", "Uint", "8", "Features">>>>,
    <<<<"Vk", "Physical", "Device", "Variable", "Pointer", "Features">>,
      <<"Vk", "Physical", "Device", "Variable", "Pointers", "Features">>>>,
    <<<<"Vk", "Physical", "Device", "Variable", "Pointers", "Features", "KHR">>,
      <<"Vk", "Physical", "Device", "Variable", "Pointers", "Features">>>>,
    <<<<"Vk", "Physical", "Device", "Variable", "Pointer", "Features", "KHR">>,
      <<"Vk", "Physical", "Device", "Variable", "Pointers", "Features">>>>,
    <<<<"Vk", "Physical", "Device", "Float", "16", "Int", "8", "Features", "KHR">>,
      <<"Vk", "Physical", "Device", "Shader", "Float", "16", "Int", "8", "Features">>>>,
    <<<<"Vk", "Physical", "Device", "Shader", "Float", "16", "Int", "8", "Features", "KHR">>,
      <<"Vk", "Physical", "Device", "Shader", "Float", "16", "Int", "8", "Features">>>>,
    <<<<"Vk", "Physical", "Device", "Float", "Controls", "Properties", "KHR">>,
      <<"Vk", "Physical", "Device", "Float", "Controls", "Properties">>>>,
    <<<<"Vk", "Physical", "Device", "Shader", "Draw", "Parameters", "Features">>,
      <<"Vk", "Physical", "Device", "Shader", "Draw", "Parameter", "Features">>>>,
    <<<<"Vk", "Physical", "Device", "Driver", "Properties", "KHR">>,
      <<"Vk", "Physical", "Device", "Driver", "Properties">>>>>>

\* dataclass_type.__name__: the name of the class an identifier is bound to
ClassName(identifier) ==
  IF \E i \in 1..Len(Aliases) : Aliases[i][1] = identifier
  THEN Aliases[CHOOSE i \in 1..Len(Aliases) : Aliases[i][1] = identifier][2]
  ELSE identifier

\* VULKAN_EXTENSIONS_AND_STRUCTS_MAPPING["extensions"], in order: each
\* extension with the structures it contributes
VULKAN_EXTENSIONS_AND_STRUCTS_MAPPING ==
  <<[extension |-> <<"VK", "_", "KHR", "_", "variable", "_", "pointers">>,
     structs |-> <<<<"Vk", "Physical", "Device", "Variable", "Pointer", "Features", "KHR">>,
                   <<"Vk", "Physical", "Device", "Variable", "Pointers", "Features", "KHR">>>>],
    [extension |-> <<"VK", "_", "KHR", "_", "shader", "_", "float16", "_", "int8">>,
     structs |-> <<<<"Vk", "Physical", "Device", "Shader", "Float", "16", "Int", "8", "Features", "KHR">>,
                   <<"Vk", "Physical", "Device", "Float", "16", "Int", "8", "Features", "KHR">>>>],
    [extension |-> <<"VK", "_", "EXT", "_", "image", "_", "2d", "_", "view", "_", "of", "_", "3d">>,
     structs |-> <<<<"Vk", "Physical", "Device", "Image", "2", "D", "View", "Of", "3", "D", "Features", "EXT">>>>],
    [extension |-> <<"VK", "_", "EXT", "_", "custom", "_", "border", "_", "color">>,
     structs |-> <<<<"Vk", "Physical", "Device", "Custom", "Border", "Color", "Features", "EXT">>>>],
    [extension |-> <<"VK", "_", "EXT", "_", "primitive", "_", "topology", "_", "list", "_", "restart">>,
     structs |-> <<<<"Vk", "Physical", "Device", "Primitive", "Topology", "List", "Restart", "Features", "EXT">>>>],
    [extension |-> <<"VK", "_", "EXT", "_", "provoking", "_", "vertex">>,
     structs |-> <<<<"Vk", "Physical", "Device", "Provoking", "Vertex", "Features", "EXT">>>>],
    [extension |-> <<"VK", "_", "KHR", "_", "index", "_", "type", "_", "uint8">>,
     structs |-> <<<<"Vk", "Physical", "Device", "Index", "Type", "Uint", "8", "Features", "KHR">>>>],
    [extension |-> <<"VK", "_", "EXT", "_", "index", "_", "type", "_", "uint8">>,
     structs |-> <<<<"Vk", "Physical", "Device", "Index", "Type", "Uint", "8", "Features", "EXT">>>>],
    [extension |-> <<"VK", "_", "KHR", "_", "vertex", "_", "attribute", "_", "divisor">>,
     structs |-> <<<<"Vk", "Physical", "Device", "Vertex", "Attribute", "Divisor", "Features", "KHR">>>>],
    [extension |-> <<"VK", "_", "EXT", "_", "vertex", "_", "attribute", "_", "divisor">>,
     structs |-> <<<<"Vk", "Physical", "Device", "Vertex", "Attribute", "Divisor", "Features", "EXT">>>>],
    [extension |-> <<"VK", "_", "EXT", "_", "transform", "_", "feedback">>,
     structs |-> <<<<"Vk", "Physical", "Device", "Transform", "Feedback", "Features", "EXT">>>>],
    [extension |-> <<"VK", "_", "KHR", "_", "shader", "_", "subgroup", "_", "uniform", "_", "control", "_", "flow">>,
     structs |-> <<<<"Vk", "Physical", "Device", "Shader", "Subgroup", "Uniform", "Control", "Flow", "Features", "KHR">>>>],
    [extension |-> <<"VK", "_", "KHR", "_", "shader", "_", "subgroup", "_", "extended", "_", "types">>,
     structs |-> <<<<"Vk", "Physical", "Device", "Shader", "Subgroup", "Extended", "Types", "Features", "KHR">>>>],
    [extension |-> <<"VK", "_", "KHR", "_", "8bit", "_", "storage">>,
     structs |-> <<<<"Vk", "Physical", "Device", "8", "Bit", "Storage", "Features", "KHR">>>>],
    [extension |-> <<"VK", "_", "KHR", "_", "shader", "_", "integer", "_", "dot", "_", "product">>,
     structs |-> <<<<"Vk", "Physical", "Device", "Shader", "Integer", "Dot", "Product", "Features", "KHR">>>>],
    [extension |-> <<"VK", "_", "IMG", "_", "relaxed", "_", "line", "_", "rasterization">>,
     structs |-> <<<<"Vk", "Physical", "Device", "Relaxed", "Line", "Rasterization", "Features", "IMG">>>>],
    [extension |-> <<"VK", "_", "KHR", "_", "line", "_", "rasterization">>,
     structs |-> <<<<"Vk", "Physical", "Device", "Line", "Rasterization", "Features", "KHR">>>>],
    [extension |-> <<"VK", "_", "EXT", "_", "line", "_", "rasterization">>,
     structs |-> <<<<"Vk", "Physical", "Device", "Line", "Rasterization", "Features", "EXT">>>>],
    [extension |-> <<"VK", "_", "EXT", "_", "primitives", "_", "generated", "_", "query">>,
     structs |-> <<<<"Vk", "Physical", "Device", "Primitives", "Generated", "Query", "Features", "EXT">>>>],
    [extension |-> <<"VK", "_", "KHR", "_", "shader", "_", "float", "_", "controls">>,
     structs |-> <<<<"Vk", "Physical", "Device", "Float", "Controls", "Properties", "KHR">>>>],
    [extension |-> <<"VK", "_", "KHR", "_", "driver", "_", "properties">>,
     structs |-> <<<<"Vk", "Physical", "Device", "Driver", "Properties", "KHR">>>>]>>

\* struct_name.removeprefix("VkPhysicalDevice").removesuffix("KHR")
\*            .removesuffix("EXT").removesuffix("IMG")
base_name(struct_name) ==
  removesuffix(removesuffix(removesuffix(
    removeprefix(struct_name, Name(<<"Vk", "Physical", "Device">>)),
    Spell("KHR")), Spell("EXT")), Spell("IMG"))

\* CamelCase to snake_case, then the two fix-ups
variable_name(struct_name) ==
  replace(replace(lower(CamelToSnake(base_name(struct_name), 1)),
                  <<"2", "_", "d", "_">>, <<"_", "2", "d", "_">>),
          <<"3", "_", "d", "_">>, <<"_", "3", "d", "_">>)

\* a derivation that appends no suffix
no_suffix(struct_name) == <<>>

\* suffix_map: the replacement of the first suffix the name ends with
suffix_map(struct_name) ==
  IF endswith(struct_name, Spell("KHR")) THEN <<"_", "k", "h", "r">>
  ELSE IF endswith(struct_name, Spell("EXT")) THEN <<"_", "e", "x", "t">>
  ELSE IF endswith(struct_name, Spell("IMG")) THEN <<"_", "i", "m", "g">>
  ELSE <<>>

\* a derivation without exceptions
no_special_cases(name) == name

\* special_cases.get(variable_name, variable_name)
special_cases(name) ==
  CASE name = <<"8", "_", "b", "i", "t", "_", "s", "t", "o", "r", "a", "g", "e", "_", "f", "e", "a",
           "t", "u", "r", "e", "s", "_", "k", "h", "r">> ->
         <<"b", "i", "t", "8", "_", "s", "t", "o", "r", "a", "g", "e", "_", "f", "e", "a", "t",
           "u", "r", "e", "s", "_", "k", "h", "r">>
    [] name = <<"m", "e", "m", "o", "r", "y", "_", "p", "r", "o", "p", "e", "r", "t", "i", "e", "s">> ->
         <<"m", "e", "m", "o", "r", "y">>
    [] name = <<"1", "6", "_", "b", "i", "t", "_", "s", "t", "o", "r", "a", "g", "e", "_", "f", "e",
           "a", "t", "u", "r", "e", "s">> ->
         <<"b", "i", "t", "1", "6", "_", "s", "t", "o", "r", "a", "g", "e", "_", "f", "e", "a",
           "t", "u", "r", "e", "s">>
    [] name = <<"i", "_", "d", "_", "p", "r", "o", "p", "e", "r", "t", "i", "e", "s">> ->
         <<"i", "d", "_", "p", "r", "o", "p", "e", "r", "t", "i", "e", "s">>
    [] OTHER -> name

get_struct_name(struct_name) ==
  special_cases(variable_name(struct_name) \o suffix_map(struct_name))

\* the first entry of a prefix_map whose prefix the name starts with, from
\* place i on; 0 when there is none
RECURSIVE FirstPrefix(_, _, _)
FirstPrefix(prefix_map, extension_name, i) ==
  IF i > Len(prefix_map) THEN 0
  ELSE IF startswith(extension_name, prefix_map[i].prefix) THEN i
  ELSE FirstPrefix(prefix_map, extension_name, i + 1)

\* the replacement of the prefix found followed by extension_name[len(prefix):],
\* or what the function falls back to
ReplacePrefix(prefix_map, extension_name, i, fallback) ==
  IF i = 0 THEN fallback
  ELSE prefix_map[i].replacement
       \o SubSeq(extension_name, Len(prefix_map[i].prefix) + 1, Len(extension_name))

\* prefix_map of get_vkjson_struct_name
StructPrefixMap ==
  <<[prefix |-> Name(<<"VK", "_", "KHR">>), replacement |-> Name(<<"Vk", "Json", "KHR">>)],
    [prefix |-> Name(<<"VK", "_", "EXT">>), replacement |-> Name(<<"Vk", "Json", "Ext">>)],
    [prefix |-> Name(<<"VK", "_", "IMG">>), replacement |-> Name(<<"Vk", "Json", "IMG">>)]>>

get_vkjson_struct_name(extension_name) ==
  SnakeToCamel(ReplacePrefix(StructPrefixMap, extension_name,
                             FirstPrefix(StructPrefixMap, extension_name, 1),
                             Name(<<"Vk", "Json", "Ext">>) \o extension_name), 1)

\* prefix_map of get_vkjson_struct_variable_name
VariablePrefixMap ==
  <<[prefix |-> Name(<<"VK", "_", "KHR", "_">>), replacement |-> <<"k", "h", "r", "_">>],
    [prefix |-> Name(<<"VK", "_", "EXT", "_">>), replacement |-> <<"e", "x", "t", "_">>],
    [prefix |-> Name(<<"VK", "_", "IMG", "_">>), replacement |-> <<"i", "m", "g", "_">>]>>

\* an instance name that is the identifier in lower case
lower_identifier(extension_name) == lower(extension_name)

get_vkjson_struct_variable_name(extension_name) ==
  ReplacePrefix(VariablePrefixMap, extension_name,
                FirstPrefix(VariablePrefixMap, extension_name, 1), lower(extension_name))

\* a constructor that zero-initialises nothing
ConstructorWithoutMemset(struct_list) ==
  <<[op |-> "assign", member |-> <<"r", "e", "p", "o", "r", "t", "e", "d">>, arg |-> <<"f", "a", "l", "s", "e">>]>>

\* the statements generate_extension_struct_definition writes into the
\* constructor: reported = false, then one memset per structure
Constructor(struct_list) ==
  <<[op |-> "assign", member |-> <<"r", "e", "p", "o", "r", "t", "e", "d">>, arg |-> <<"f", "a", "l", "s", "e">>]>>
  \o [j \in 1..Len(struct_list) |->
        [op |-> "memset", member |-> get_struct_name(Name(struct_list[j])),
         arg |-> Name(struct_list[j])]]

\* the members it declares: bool reported, then struct_entries
Members(struct_list) ==
  <<[type |-> <<"b", "o", "o", "l">>, name |-> <<"r", "e", "p", "o", "r", "t", "e", "d">>]>>
  \o [j \in 1..Len(struct_list) |->
        [type |-> Name(struct_list[j]), name |-> get_struct_name(Name(struct_list[j]))]]

\* generate_extension_struct_definition over a mapping: the wrappers written
\* to the file, and the entries returned ("type name")
generate_extension_struct_definition(mapping) ==
  [written |-> [i \in 1..Len(mapping) |->
                  [name |-> get_vkjson_struct_name(Name(mapping[i].extension)),
                   constructor |-> Constructor(mapping[i].structs),
                   members |-> Members(mapping[i].structs)]],
   entries |-> [i \in 1..Len(mapping) |->
                  [type |-> get_vkjson_struct_name(Name(mapping[i].extension)),
                   name |-> get_vkjson_struct_variable_name(Name(mapping[i].extension))]]]

\* the mappings the generator is run on: the table up to an extension, and
\* each extension alone
Mappings ==
  {SubSeq(VULKAN_EXTENSIONS_AND_STRUCTS_MAPPING, 1, n) :
     n \in 0..Len(VULKAN_EXTENSIONS_AND_STRUCTS_MAPPING)}
  \cup {SubSeq(VULKAN_EXTENSIONS_AND_STRUCTS_MAPPING, n, n) :
          n \in 1..Len(VULKAN_EXTENSIONS_AND_STRUCTS_MAPPING)}

\* dataclasses.fields(dataclass_type): the names of the fields of a class of
\* vk.py, in the order they are declared
dataclass_fields(struct_name) ==
  CASE struct_name = "VkPhysicalDeviceFloatControlsProperties" ->
         <<"denormBehaviorIndependence", "roundingModeIndependence",
           "shaderSignedZeroInfNanPreserveFloat16", "shaderSignedZeroInfNanPreserveFloat32",
           "shaderSignedZeroInfNanPreserveFloat64", "shaderDenormPreserveFloat16",
           "shaderDenormPreserveFloat32", "shaderDenormPreserveFloat64",
           "shaderDenormFlushToZeroFloat16", "shaderDenormFlushToZeroFloat32",
           "shaderDenormFlushToZeroFloat64", "shaderRoundingModeRTEFloat16",
           "shaderRoundingModeRTEFloat32", "shaderRoundingModeRTEFloat64",
           "shaderRoundingModeRTZFloat16", "shaderRoundingModeRTZFloat32",
           "shaderRoundingModeRTZFloat64">>
    [] struct_name = "VkPhysicalDeviceProperties" ->
         <<"apiVersion", "driverVersion", "vendorID", "deviceID", "deviceType", "deviceName",
           "pipelineCacheUUID", "limits", "sparseProperties">>
    [] struct_name = "VkPhysicalDeviceMemoryProperties" ->
         <<"memoryTypeCount", "memoryTypes", "memoryHeapCount", "memoryHeaps">>
    [] struct_name = "VkPhysicalDeviceSubgroupProperties" ->
         <<"subgroupSize", "supportedStages", "supportedOperations",
           "quadOperationsInAllStages">>
    [] struct_name = "VkPhysicalDevicePointClippingProperties" ->
         <<"pointClippingBehavior">>
    [] struct_name = "VkPhysicalDeviceMultiviewProperties" ->
         <<"maxMultiviewViewCount", "maxMultiviewInstanceIndex">>
    [] struct_name = "VkPhysicalDeviceIDProperties" ->
         <<"deviceUUID", "driverUUID", "deviceLUID", "deviceNodeMask", "deviceLUIDValid">>
    [] struct_name = "VkPhysicalDeviceMaintenance3Properties" ->
         <<"maxPerSetDescriptors", "maxMemoryAllocationSize">>
    [] struct_name = "VkPhysicalDeviceSparseProperties" ->
         <<"residencyStandard2DBlockShape", "residencyStandard2DMultisampleBlockShape",
           "residencyStandard3DBlockShape", "residencyAlignedMipSize",
           "residencyNonResidentStrict">>
    [] struct_name = "VkImageFormatProperties" ->
         <<"maxExtent", "maxMipLevels", "maxArrayLayers", "sampleCounts", "maxResourceSize">>
    [] struct_name = "VkQueueFamilyProperties" ->
         <<"queueFlags", "queueCount", "timestampValidBits", "minImageTransferGranularity">>
    [] struct_name = "VkExtensionProperties" ->
         <<"extensionName", "specVersion">>
    [] struct_name = "VkLayerProperties" ->
         <<"layerName", "specVersion", "implementationVersion", "description">>
    [] struct_name = "VkFormatProperties" ->
         <<"linearTilingFeatures", "optimalTilingFeatures", "bufferFeatures">>
    [] struct_name = "VkPhysicalDeviceVariablePointersFeatures" ->
         <<"variablePointersStorageBuffer", "variablePointers">>
    [] struct_name = "VkPhysicalDeviceShaderFloat16Int8Features" ->
         <<"shaderFloat16", "shaderInt8">>
    [] struct_name = "VkPhysicalDeviceImage2DViewOf3DFeaturesEXT" ->
         <<"image2DViewOf3D", "sampler2DViewOf3D">>
    [] struct_name = "VkPhysicalDeviceCustomBorderColorFeaturesEXT" ->
         <<"customBorderColors", "customBorderColorWithoutFormat">>
    [] struct_name = "VkPhysicalDevicePrimitiveTopologyListRestartFeaturesEXT" ->
         <<"primitiveTopologyListRestart", "primitiveTopologyPatchListRestart">>
    [] struct_name = "VkPhysicalDeviceProvokingVertexFeaturesEXT" ->
         <<"provokingVertexLast", "transformFeedbackPreservesProvokingVertex">>
    [] struct_name = "VkPhysicalDeviceIndexTypeUint8Features" ->
         <<"indexTypeUint8">>
    [] struct_name = "VkPhysicalDeviceVertexAttributeDivisorFeatures" ->
         <<"vertexAttributeInstanceRateDivisor", "vertexAttributeInstanceRateZeroDivisor">>
    [] struct_name = "VkPhysicalDeviceTransformFeedbackFeaturesEXT" ->
         <<"transformFeedback", "geometryStreams">>
    [] struct_name = "VkPhysicalDeviceShaderSubgroupUniformControlFlowFeaturesKHR" ->
         <<"shaderSubgroupUniformControlFlow">>
    [] struct_name = "VkPhysicalDeviceShaderSubgroupExtendedTypesFeatures" ->
         <<"shaderSubgroupExtendedTypes">>
    [] struct_name = "VkPhysicalDevice8BitStorageFeatures" ->
         <<"storageBuffer8BitAccess", "uniformAndStorageBuffer8BitAccess",
           "storagePushConstant8">>
    [] struct_name = "VkPhysicalDeviceShaderIntegerDotProductFeatures" ->
         <<"shaderIntegerDotProduct">>
    [] struct_name = "VkPhysicalDeviceRelaxedLineRasterizationFeaturesIMG" ->
         <<"relaxedLineRasterization">>
    [] struct_name = "VkPhysicalDeviceLineRasterizationFeatures" ->
         <<"rectangularLines", "bresenhamLines", "smoothLines", "stippledRectangularLines",
           "stippledBresenhamLines", "stippledSmoothLines">>
    [] struct_name = "VkPhysicalDevicePrimitivesGeneratedQueryFeaturesEXT" ->
         <<"primitivesGeneratedQuery", "primitivesGeneratedQueryWithRasterizerDiscard",
           "primitivesGeneratedQueryWithNonZeroStreams">>
    [] struct_name = "VkPhysicalDevice16BitStorageFeatures" ->
         <<"storageBuffer16BitAccess", "uniformAndStorageBuffer16BitAccess",
           "storagePushConstant16", "storageInputOutput16">>
    [] struct_name = "VkPhysicalDeviceMultiviewFeatures" ->
         <<"multiview", "multiviewGeometryShader", "multiviewTessellationShader">>
    [] struct_name = "VkPhysicalDeviceProtectedMemoryFeatures" ->
         <<"protectedMemory">>
    [] struct_name = "VkPhysicalDeviceSamplerYcbcrConversionFeatures" ->
         <<"samplerYcbcrConversion">>
    [] struct_name = "VkPhysicalDeviceShaderDrawParameterFeatures" ->
         <<"shaderDrawParameters">>
    [] struct_name = "VkPhysicalDeviceLimits" ->
         <<"maxImageDimension1D", "maxImageDimension2D", "maxImageDimension3D",
           "maxImageDimensionCube", "maxImageArrayLayers", "maxTexelBufferElements",
           "maxUniformBufferRange", "maxStorageBufferRange", "maxPushConstantsSize",
           "maxMemoryAllocationCount", "maxSamplerAllocationCount", "bufferImageGranularity",
           "sparseAddressSpaceSize", "maxBoundDescriptorSets", "maxPerStageDescriptorSamplers",
           "maxPerStageDescriptorUniformBuffers", "maxPerStageDescriptorStorageBuffers",
           "maxPerStageDescriptorSampledImages", "maxPerStageDescriptorStorageImages",
           "maxPerStageDescriptorInputAttachments", "maxPerStageResources",
           "maxDescriptorSetSamplers", "maxDescriptorSetUniformBuffers",
           "maxDescriptorSetUniformBuffersDynamic", "maxDescriptorSetStorageBuffers",
           "maxDescriptorSetStorageBuffersDynamic", "maxDescriptorSetSampledImages",
           "maxDescriptorSetStorageImages", "maxDescriptorSetInputAttachments",
           "maxVertexInputAttributes", "maxVertexInputBindings", "maxVertexInputAttributeOffset",
           "maxVertexInputBindingStride", "maxVertexOutputComponents",
           "maxTessellationGenerationLevel", "maxTessellationPatchSize",
           "maxTessellationControlPerVertexInputComponents",
           "maxTessellationControlPerVertexOutputComponents",
           "maxTessellationControlPerPatchOutputComponents",
           "maxTessellationControlTotalOutputComponents",
           "maxTessellationEvaluationInputComponents",
           "maxTessellationEvaluationOutputComponents", "maxGeometryShaderInvocations",
           "maxGeometryInputComponents", "maxGeometryOutputComponents",
           "maxGeometryOutputVertices", "maxGeometryTotalOutputComponents",
           "maxFragmentInputComponents", "maxFragmentOutputAttachments",
           "maxFragmentDualSrcAttachments", "maxFragmentCombinedOutputResources",
           "maxComputeSharedMemorySize", "maxComputeWorkGroupCount",
           "maxComputeWorkGroupInvocations", "maxComputeWorkGroupSize", "subPixelPrecisionBits",
           "subTexelPrecisionBits", "mipmapPrecisionBits", "maxDrawIndexedIndexValue",
           "maxDrawIndirectCount", "maxSamplerLodBias", "maxSamplerAnisotropy", "maxViewports",
           "maxViewportDimensions", "viewportBoundsRange", "viewportSubPixelBits",
           "minMemoryMapAlignment", "minTexelBufferOffsetAlignment",
           "minUniformBufferOffsetAlignment", "minStorageBufferOffsetAlignment",
           "minTexelOffset", "maxTexelOffset", "minTexelGatherOffset", "maxTexelGatherOffset",
           "minInterpolationOffset", "maxInterpolationOffset", "subPixelInterpolationOffsetBits",
           "maxFramebufferWidth", "maxFramebufferHeight", "maxFramebufferLayers",
           "framebufferColorSampleCounts", "framebufferDepthSampleCounts",
           "framebufferStencilSampleCounts", "framebufferNoAttachmentsSampleCounts",
           "maxColorAttachments", "sampledImageColorSampleCounts",
           "sampledImageIntegerSampleCounts", "sampledImageDepthSampleCounts",
           "sampledImageStencilSampleCounts", "storageImageSampleCounts", "maxSampleMaskWords",
           "timestampComputeAndGraphics", "timestampPeriod", "maxClipDistances",
           "maxCullDistances", "maxCombinedClipAndCullDistances", "discreteQueuePriorities",
           "pointSizeRange", "lineWidthRange", "pointSizeGranularity", "lineWidthGranularity",
           "strictLines", "standardSampleLocations", "optimalBufferCopyOffsetAlignment",
           "optimalBufferCopyRowPitchAlignment", "nonCoherentAtomSize">>
    [] struct_name = "VkPhysicalDeviceFeatures" ->
         <<"robustBufferAccess", "fullDrawIndexUint32", "imageCubeArray", "independentBlend",
           "geometryShader", "tessellationShader", "sampleRateShading", "dualSrcBlend",
           "logicOp", "multiDrawIndirect", "drawIndirectFirstInstance", "depthClamp",
           "depthBiasClamp", "fillModeNonSolid", "depthBounds", "wideLines", "largePoints",
           "alphaToOne", "multiViewport", "samplerAnisotropy", "textureCompressionETC2",
           "textureCompressionASTC_LDR", "textureCompressionBC", "occlusionQueryPrecise",
           "pipelineStatisticsQuery", "vertexPipelineStoresAndAtomics",
           "fragmentStoresAndAtomics", "shaderTessellationAndGeometryPointSize",
           "shaderImageGatherExtended", "shaderStorageImageExtendedFormats",
           "shaderStorageImageMultisample", "shaderStorageImageReadWithoutFormat",
           "shaderStorageImageWriteWithoutFormat", "shaderUniformBufferArrayDynamicIndexing",
           "shaderSampledImageArrayDynamicIndexing", "shaderStorageBufferArrayDynamicIndexing",
           "shaderStorageImageArrayDynamicIndexing", "shaderClipDistance", "shaderCullDistance",
           "shaderFloat64", "shaderInt64", "shaderInt16", "shaderResourceResidency",
           "shaderResourceMinLod", "sparseBinding", "sparseResidencyBuffer",
           "sparseResidencyImage2D", "sparseResidencyImage3D", "sparseResidency2Samples",
           "sparseResidency4Samples", "sparseResidency8Samples", "sparseResidency16Samples",
           "sparseResidencyAliased", "variableMultisampleRate", "inheritedQueries">>
    [] struct_name = "VkPhysicalDeviceVulkan11Properties" ->
         <<"deviceUUID", "driverUUID", "deviceLUID", "deviceNodeMask", "deviceLUIDValid",
           "subgroupSize", "subgroupSupportedStages", "subgroupSupportedOperations",
           "subgroupQuadOperationsInAllStages", "pointClippingBehavior", "maxMultiviewViewCount",
           "maxMultiviewInstanceIndex", "protectedNoFault", "maxPerSetDescriptors",
           "maxMemoryAllocationSize">>
    [] struct_name = "VkPhysicalDeviceVulkan11Features" ->
         <<"storageBuffer16BitAccess", "uniformAndStorageBuffer16BitAccess",
           "storagePushConstant16", "storageInputOutput16", "multiview",
           "multiviewGeometryShader", "multiviewTessellationShader",
           "variablePointersStorageBuffer", "variablePointers", "protectedMemory",
           "samplerYcbcrConversion", "shaderDrawParameters">>
    [] struct_name = "VkPhysicalDeviceVulkan12Properties" ->
         <<"driverID", "driverName", "driverInfo", "conformanceVersion",
           "denormBehaviorIndependence", "roundingModeIndependence",
           "shaderSignedZeroInfNanPreserveFloat16", "shaderSignedZeroInfNanPreserveFloat32",
           "shaderSignedZeroInfNanPreserveFloat64", "shaderDenormPreserveFloat16",
           "shaderDenormPreserveFloat32", "shaderDenormPreserveFloat64",
           "shaderDenormFlushToZeroFloat16", "shaderDenormFlushToZeroFloat32",
           "shaderDenormFlushToZeroFloat64", "shaderRoundingModeRTEFloat16",
           "shaderRoundingModeRTEFloat32", "shaderRoundingModeRTEFloat64",
           "shaderRoundingModeRTZFloat16", "shaderRoundingModeRTZFloat32",
           "shaderRoundingModeRTZFloat64", "maxUpdateAfterBindDescriptorsInAllPools",
           "shaderUniformBufferArrayNonUniformIndexingNative",
           "shaderSampledImageArrayNonUniformIndexingNative",
           "shaderStorageBufferArrayNonUniformIndexingNative",
           "shaderStorageImageArrayNonUniformIndexingNative",
           "shaderInputAttachmentArrayNonUniformIndexingNative",
           "robustBufferAccessUpdateAfterBind", "quadDivergentImplicitLod",
           "maxPerStageDescriptorUpdateAfterBindSamplers",
           "maxPerStageDescriptorUpdateAfterBindUniformBuffers",
           "maxPerStageDescriptorUpdateAfterBindStorageBuffers",
           "maxPerStageDescriptorUpdateAfterBindSampledImages",
           "maxPerStageDescriptorUpdateAfterBindStorageImages",
           "maxPerStageDescriptorUpdateAfterBindInputAttachments",
           "maxPerStageUpdateAfterBindResources", "maxDescriptorSetUpdateAfterBindSamplers",
           "maxDescriptorSetUpdateAfterBindUniformBuffers",
           "maxDescriptorSetUpdateAfterBindUniformBuffersDynamic",
           "maxDescriptorSetUpdateAfterBindStorageBuffers",
           "maxDescriptorSetUpdateAfterBindStorageBuffersDynamic",
           "maxDescriptorSetUpdateAfterBindSampledImages",
           "maxDescriptorSetUpdateAfterBindStorageImages",
           "maxDescriptorSetUpdateAfterBindInputAttachments", "supportedDepthResolveModes",
           "supportedStencilResolveModes", "independentResolveNone", "independentResolve",
           "filterMinmaxSingleComponentFormats", "filterMinmaxImageComponentMapping",
           "maxTimelineSemaphoreValueDifference", "framebufferIntegerColorSampleCounts">>
    [] struct_name = "VkPhysicalDeviceVulkan12Features" ->
         <<"samplerMirrorClampToEdge", "drawIndirectCount", "storageBuffer8BitAccess",
           "uniformAndStorageBuffer8BitAccess", "storagePushConstant8",
           "shaderBufferInt64Atomics", "shaderSharedInt64Atomics", "shaderFloat16", "shaderInt8",
           "descriptorIndexing", "shaderInputAttachmentArrayDynamicIndexing",
           "shaderUniformTexelBufferArrayDynamicIndexing",
           "shaderStorageTexelBufferArrayDynamicIndexing",
           "shaderUniformBufferArrayNonUniformIndexing",
           "shaderSampledImageArrayNonUniformIndexing",
           "shaderStorageBufferArrayNonUniformIndexing",
           "shaderStorageImageArrayNonUniformIndexing",
           "shaderInputAttachmentArrayNonUniformIndexing",
           "shaderUniformTexelBufferArrayNonUniformIndexing",
           "shaderStorageTexelBufferArrayNonUniformIndexing",
           "descriptorBindingUniformBufferUpdateAfterBind",
           "descriptorBindingSampledImageUpdateAfterBind",
           "descriptorBindingStorageImageUpdateAfterBind",
           "descriptorBindingStorageBufferUpdateAfterBind",
           "descriptorBindingUniformTexelBufferUpdateAfterBind",
           "descriptorBindingStorageTexelBufferUpdateAfterBind",
           "descriptorBindingUpdateUnusedWhilePending", "descriptorBindingPartiallyBound",
           "descriptorBindingVariableDescriptorCount", "runtimeDescriptorArray",
           "samplerFilterMinmax", "scalarBlockLayout", "imagelessFramebuffer",
           "uniformBufferStandardLayout", "shaderSubgroupExtendedTypes",
           "separateDepthStencilLayouts", "hostQueryReset", "timelineSemaphore",
           "bufferDeviceAddress", "bufferDeviceAddressCaptureReplay",
           "bufferDeviceAddressMultiDevice", "vulkanMemoryModel", "vulkanMemoryModelDeviceScope",
           "vulkanMemoryModelAvailabilityVisibilityChains", "shaderOutputViewportIndex",
           "shaderOutputLayer", "subgroupBroadcastDynamicId">>
    [] struct_name = "VkPhysicalDeviceVulkan13Properties" ->
         <<"minSubgroupSize", "maxSubgroupSize", "maxComputeWorkgroupSubgroups",
           "requiredSubgroupSizeStages", "maxInlineUniformBlockSize",
           "maxPerStageDescriptorInlineUniformBlocks",
           "maxPerStageDescriptorUpdateAfterBindInlineUniformBlocks",
           "maxDescriptorSetInlineUniformBlocks",
           "maxDescriptorSetUpdateAfterBindInlineUniformBlocks", "maxInlineUniformTotalSize",
           "integerDotProduct8BitUnsignedAccelerated", "integerDotProduct8BitSignedAccelerated",
           "integerDotProduct8BitMixedSignednessAccelerated",
           "integerDotProduct4x8BitPackedUnsignedAccelerated",
           "integerDotProduct4x8BitPackedSignedAccelerated",
           "integerDotProduct4x8BitPackedMixedSignednessAccelerated",
           "integerDotProduct16BitUnsignedAccelerated",
           "integerDotProduct16BitSignedAccelerated",
           "integerDotProduct16BitMixedSignednessAccelerated",
           "integerDotProduct32BitUnsignedAccelerated",
           "integerDotProduct32BitSignedAccelerated",
           "integerDotProduct32BitMixedSignednessAccelerated",
           "integerDotProduct64BitUnsignedAccelerated",
           "integerDotProduct64BitSignedAccelerated",
           "integerDotProduct64BitMixedSignednessAccelerated",
           "integerDotProductAccumulatingSaturating8BitUnsignedAccelerated",
           "integerDotProductAccumulatingSaturating8BitSignedAccelerated",
           "integerDotProductAccumulatingSaturating8BitMixedSignednessAccelerated",
           "integerDotProductAccumulatingSaturating4x8BitPackedUnsignedAccelerated",
           "integerDotProductAccumulatingSaturating4x8BitPackedSignedAccelerated",
           "integerDotProductAccumulatingSaturating4x8BitPackedMixedSignednessAccelerated",
           "integerDotProductAccumulatingSaturating16BitUnsignedAccelerated",
           "integerDotProductAccumulatingSaturating16BitSignedAccelerated",
           "integerDotProductAccumulatingSaturating16BitMixedSignednessAccelerated",
           "integerDotProductAccumulatingSaturating32BitUnsignedAccelerated",
           "integerDotProductAccumulatingSaturating32BitSignedAccelerated",
           "integerDotProductAccumulatingSaturating32BitMixedSignednessAccelerated",
           "integerDotProductAccumulatingSaturating64BitUnsignedAccelerated",
           "integerDotProductAccumulatingSaturating64BitSignedAccelerated",
           "integerDotProductAccumulatingSaturating64BitMixedSignednessAccelerated",
           "storageTexelBufferOffsetAlignmentBytes",
           "storageTexelBufferOffsetSingleTexelAlignment",
           "uniformTexelBufferOffsetAlignmentBytes",
           "uniformTexelBufferOffsetSingleTexelAlignment", "maxBufferSize">>
    [] struct_name = "VkPhysicalDeviceVulkan13Features" ->
         <<"robustImageAccess", "inlineUniformBlock",
           "descriptorBindingInlineUniformBlockUpdateAfterBind", "pipelineCreationCacheControl",
           "privateData", "shaderDemoteToHelperInvocation", "shaderTerminateInvocation",
           "subgroupSizeControl", "computeFullSubgroups", "synchronization2",
           "textureCompressionASTC_HDR", "shaderZeroInitializeWorkgroupMemory",
           "dynamicRendering", "shaderIntegerDotProduct", "maintenance4">>
    [] struct_name = "VkPhysicalDeviceVulkan14Properties" ->
         <<"lineSubPixelPrecisionBits", "maxVertexAttribDivisor",
           "supportsNonZeroFirstInstance", "maxPushDescriptors",
           "dynamicRenderingLocalReadDepthStencilAttachments",
           "dynamicRenderingLocalReadMultisampledAttachments",
           "earlyFragmentMultisampleCoverageAfterSampleCounting",
           "earlyFragmentSampleMaskTestBeforeSampleCounting", "depthStencilSwizzleOneSupport",
           "polygonModePointSize", "nonStrictSinglePixelWideLinesUseParallelogram",
           "nonStrictWideLinesUseParallelogram", "blockTexelViewCompatibleMultipleLayers",
           "maxCombinedImageSamplerDescriptorCount", "fragmentShadingRateClampCombinerInputs",
           "defaultRobustnessStorageBuffers", "defaultRobustnessUniformBuffers",
           "defaultRobustnessVertexInputs", "defaultRobustnessImages", "copySrcLayoutCount",
           "pCopySrcLayouts", "copyDstLayoutCount", "pCopyDstLayouts", "optimalTilingLayoutUUID",
           "identicalMemoryTypeRequirements">>
    [] struct_name = "VkPhysicalDeviceVulkan14Features" ->
         <<"globalPriorityQuery", "shaderSubgroupRotate", "shaderSubgroupRotateClustered",
           "shaderFloatControls2", "shaderExpectAssume", "rectangularLines", "bresenhamLines",
           "smoothLines", "stippledRectangularLines", "stippledBresenhamLines",
           "stippledSmoothLines", "vertexAttributeInstanceRateDivisor",
           "vertexAttributeInstanceRateZeroDivisor", "indexTypeUint8",
           "dynamicRenderingLocalRead", "maintenance5", "maintenance6",
           "pipelineProtectedAccess", "pipelineRobustness", "hostImageCopy", "pushDescriptor">>
    [] struct_name = "VkPhysicalDeviceDriverProperties" ->
         <<"driverID", "driverName", "driverInfo", "conformanceVersion">>

\* the fields annotated List[...]
ListTyped ==
  {<<"VkPhysicalDeviceMemoryProperties", "memoryTypes">>,
   <<"VkPhysicalDeviceMemoryProperties", "memoryHeaps">>,
   <<"VkPhysicalDeviceVulkan14Properties", "pCopySrcLayouts">>,
   <<"VkPhysicalDeviceVulkan14Properties", "pCopyDstLayouts">>}

\* a mapping that names a size field of another structure
SIZE_MAPPING_ACROSS_STRUCTS ==
  [pCopySrcLayouts |-> "copySrcLayoutCount",
   pCopyDstLayouts |-> "copyDstLayoutCount",
   memoryTypes |-> "memoryTypeCount",
   memoryHeaps |-> "copyDstLayoutCount"]

LIST_TYPE_FIELD_AND_SIZE_MAPPING ==
  [pCopySrcLayouts |-> "copySrcLayoutCount",
   pCopyDstLayouts |-> "copyDstLayoutCount",
   memoryTypes |-> "memoryTypeCount",
   memoryHeaps |-> "memoryHeapCount"]

\* sub in s
contains(s, sub) ==
  \E i \in 1..(Len(s) - Len(sub) + 1) : SubSeq(s, i, i + Len(sub) - 1) = sub

\* the name of the parameter of Iterate: "None" when the name of the class
\* holds none of the three words
struct_var(struct_name) ==
  IF contains(struct_name, Spell("Properties")) THEN "properties"
  ELSE IF contains(struct_name, Spell("Features")) THEN "features"
  ELSE IF contains(struct_name, Spell("Limits")) THEN "limits"
  ELSE "None"

\* a generator that visits every field with Visit
VisitOnly(var, class, field_name) ==
  [op |-> "Visit", key |-> field_name, member |-> <<var, field_name>>]

\* the call appended to visitor_calls for a field
VisitorCall(var, class, field_name) ==
  IF <<class, field_name>> \in ListTyped
  THEN [op |-> "VisitArray", key |-> field_name,
        count |-> <<var, LIST_TYPE_FIELD_AND_SIZE_MAPPING[field_name]>>,
        member |-> <<var, field_name>>]
  ELSE [op |-> "Visit", key |-> field_name, member |-> <<var, field_name>>]

\* a generator that writes the calls of a class from its last field to its
\* first
StructTemplateBackwards(struct_name) ==
  [struct_name |-> struct_name, function |-> struct_var(struct_name) # "None",
   calls |-> IF struct_var(struct_name) = "None" THEN <<>>
             ELSE [j \in 1..Len(dataclass_fields(Join(struct_name))) |->
                     VisitorCall(struct_var(struct_name), Join(struct_name),
                                 dataclass_fields(Join(struct_name))[
                                   Len(dataclass_fields(Join(struct_name))) + 1 - j])],
   joined |-> "&&"]

\* what is appended to template_code for a class: the template line, and
\* unless struct_var is None the function with its calls joined by " &&"
StructTemplate(struct_name) ==
  IF struct_var(struct_name) = "None"
  THEN [struct_name |-> struct_name, function |-> FALSE, calls |-> <<>>, joined |-> "&&"]
  ELSE [struct_name |-> struct_name, function |-> TRUE,
        calls |-> [j \in 1..Len(dataclass_fields(Join(struct_name))) |->
                     VisitorCall(struct_var(struct_name), Join(struct_name),
                                 dataclass_fields(Join(struct_name))[j])],
        joined |-> "&&"]

RECURSIVE TemplateOfAll(_, _, _)
RECURSIVE TemplateFrom(_, _, _)
\* a generator that keeps no processed_classes
TemplateOfAll(data_classes, i, processed_classes) ==
  IF i > Len(data_classes) THEN <<>>
  ELSE <<StructTemplate(Name(ClassName(data_classes[i])))>>
       \o TemplateOfAll(data_classes, i + 1, processed_classes)

\* the loop of generate_struct_template from place i on
TemplateFrom(data_classes, i, processed_classes) ==
  IF i > Len(data_classes) THEN <<>>
  ELSE IF ClassName(data_classes[i]) \in processed_classes
  THEN TemplateFrom(data_classes, i + 1, processed_classes)
  ELSE <<StructTemplate(Name(ClassName(data_classes[i])))>>
       \o TemplateFrom(data_classes, i + 1, processed_classes \cup {ClassName(data_classes[i])})

generate_struct_template(data_classes) == TemplateFrom(data_classes, 1, {})

\* VULKAN_CORES_AND_STRUCTS_MAPPING["versions"], in order
VULKAN_CORES_AND_STRUCTS_MAPPING ==
  <<[version |-> <<"Core", "11">>,
     structs |-> <<<<"Vk", "Physical", "Device", "Vulkan", "11", "Properties">>,
                   <<"Vk", "Physical", "Device", "Vulkan", "11", "Features">>>>],
    [version |-> <<"Core", "12">>,
     structs |-> <<<<"Vk", "Physical", "Device", "Vulkan", "12", "Properties">>,
                   <<"Vk", "Physical", "Device", "Vulkan", "12", "Features">>>>],
    [version |-> <<"Core", "13">>,
     structs |-> <<<<"Vk", "Physical", "Device", "Vulkan", "13", "Properties">>,
                   <<"Vk", "Physical", "Device", "Vulkan", "13", "Features">>>>],
    [version |-> <<"Core", "14">>,
     structs |-> <<<<"Vk", "Physical", "Device", "Vulkan", "14", "Properties">>,
                   <<"Vk", "Physical", "Device", "Vulkan", "14", "Features">>>>]>>

\* VULKAN_VERSIONS_AND_STRUCTS_MAPPING["VK_VERSION_1_1"], in order
VK_VERSION_1_1 ==
  <<<<"Vk", "Physical", "Device", "Subgroup", "Properties">>,
    <<"Vk", "Physical", "Device", "Point", "Clipping", "Properties">>,
    <<"Vk", "Physical", "Device", "Multiview", "Properties">>,
    <<"Vk", "Physical", "Device", "ID", "Properties">>,
    <<"Vk", "Physical", "Device", "Maintenance", "3", "Properties">>,
    <<"Vk", "Physical", "Device", "Multiview", "Features">>,
    <<"Vk", "Physical", "Device", "Variable", "Pointers", "Features">>,
    <<"Vk", "Physical", "Device", "Protected", "Memory", "Features">>,
    <<"Vk", "Physical", "Device", "Sampler", "Ycbcr", "Conversion", "Features">>,
    <<"Vk", "Physical", "Device", "Shader", "Draw", "Parameter", "Features">>,
    <<"Vk", "Physical", "Device", "16", "Bit", "Storage", "Features">>>>

\* VULKAN_VERSIONS_AND_STRUCTS_MAPPING["VK_VERSION_1_0"], in order
VK_VERSION_1_0 ==
  <<<<"Vk", "Physical", "Device", "Properties">>,
    <<"Vk", "Physical", "Device", "Features">>,
    <<"Vk", "Physical", "Device", "Memory", "Properties">>>>

\* VULKAN_VERSIONS_AND_STRUCTS_MAPPING by version
VULKAN_VERSIONS_AND_STRUCTS_MAPPING(version) ==
  CASE version = "VK_VERSION_1_0" -> VK_VERSION_1_0
    [] version = "VK_VERSION_1_1" -> VK_VERSION_1_1

\* EXTENSION_INDEPENDENT_STRUCTS, in order
EXTENSION_INDEPENDENT_STRUCTS ==
  <<<<"Vk", "Physical", "Device", "Properties">>,
    <<"Vk", "Physical", "Device", "Features">>,
    <<"Vk", "Physical", "Device", "Memory", "Properties">>,
    <<"Vk", "Physical", "Device", "Subgroup", "Properties">>,
    <<"Vk", "Physical", "Device", "Point", "Clipping", "Properties">>,
    <<"Vk", "Physical", "Device", "Multiview", "Properties">>,
    <<"Vk", "Physical", "Device", "ID", "Properties">>,
    <<"Vk", "Physical", "Device", "Maintenance", "3", "Properties">>,
    <<"Vk", "Physical", "Device", "16", "Bit", "Storage", "Features">>,
    <<"Vk", "Physical", "Device", "Multiview", "Features">>,
    <<"Vk", "Physical", "Device", "Variable", "Pointers", "Features">>,
    <<"Vk", "Physical", "Device", "Protected", "Memory", "Features">>,
    <<"Vk", "Physical", "Device", "Sampler", "Ycbcr", "Conversion", "Features">>,
    <<"Vk", "Physical", "Device", "Shader", "Draw", "Parameter", "Features">>>>

\* generate_memset_statements: for every extension-independent structure the
\* class zero-initialised and the member of VkJsonDevice declared for it
generate_memset_statements(structs) ==
  [i \in 1..Len(structs) |->
     [class_name |-> Join(Name(ClassName(structs[i]))),
      variable_name |-> Join(get_struct_name(Name(ClassName(structs[i]))))]]

\* re.sub(r"_([a-z])", lambda match: match.group(1).upper(), s), from place
\* i on: an underscore and the lower-case letter after it become that letter
\* in upper case
RECURSIVE LowerToCamel(_, _)
LowerToCamel(s, i) ==
  IF i > Len(s) THEN <<>>
  ELSE IF s[i] = "_" /\ i < Len(s) /\ (\E k \in 1..Len(Lower) : Lower[k] = s[i + 1])
  THEN <<UpperChar(s[i + 1])>> \o LowerToCamel(s, i + 2)
  ELSE <<s[i]>> \o LowerToCamel(s, i + 1)

\* emit_struct_visits_by_vk_version(f, version): the visits of the members
\* of a base version, in the order of the table
emit_struct_visits_by_vk_version(version) ==
  [i \in 1..Len(VULKAN_VERSIONS_AND_STRUCTS_MAPPING(version)) |->
     [op |-> "Visit",
      key |-> Join(LowerToCamel(get_struct_name(Name(VULKAN_VERSIONS_AND_STRUCTS_MAPPING(version)[i])), 1)),
      member |-> Join(get_struct_name(Name(VULKAN_VERSIONS_AND_STRUCTS_MAPPING(version)[i])))]]

\* generate_core_template: the wrapper each Iterate function takes
generate_core_template ==
  [i \in 1..Len(VULKAN_CORES_AND_STRUCTS_MAPPING) |->
     "VkJson" \o Join(Name(VULKAN_CORES_AND_STRUCTS_MAPPING[i].version))]

\* generate_extension_struct_template: the wrapper each Iterate function takes
generate_extension_struct_template ==
  [i \in 1..Len(VULKAN_EXTENSIONS_AND_STRUCTS_MAPPING) |->
     Join(get_vkjson_struct_name(Name(VULKAN_EXTENSIONS_AND_STRUCTS_MAPPING[i].extension)))]

\* the structures of the Iterate functions gen_cc writes out literally:
\* before the generated ones, and after them
HandWrittenBefore == <<"VkExtent3D", "VkConformanceVersionKHR", "VkMemoryType", "VkMemoryHeap">>

HandWrittenAfter ==
  <<"VkExternalFenceProperties", "VkExternalSemaphoreProperties", "VkJsonLayer",
    "VkJsonDeviceGroup", "VkJsonDevice", "VkJsonInstance">>

\* the structures of the functions of a template
FunctionsOf(template) ==
  [k \in 1..Len(SelectSeq(template, LAMBDA t : t.function)) |->
     Join(SelectSeq(template, LAMBDA t : t.function)[k].struct_name)]

\* a generator that writes the templates of the extension-independent
\* structures only
IterateOfIndependent ==
  HandWrittenBefore \o generate_core_template \o generate_extension_struct_template
  \o FunctionsOf(generate_struct_template(EXTENSION_INDEPENDENT_STRUCTS)) \o HandWrittenAfter

\* the structure of every Iterate function of vkjson.cc, in the order gen_cc
\* writes them
IterateFunctions ==
  HandWrittenBefore \o generate_core_template \o generate_extension_struct_template
  \o FunctionsOf(generate_struct_template(ALL_STRUCTS)) \o HandWrittenAfter

\* the members Iterate(VkJsonDevice) visits for the two base versions: those
\* of VK_VERSION_1_1, then those of VK_VERSION_1_0
DeviceVisits ==
  emit_struct_visits_by_vk_version("VK_VERSION_1_1")
  \o emit_struct_visits_by_vk_version("VK_VERSION_1_0")

\* the lists generate_struct_template is run on: ALL_STRUCTS up to an entry,
\* and every alias with the class it is bound to
DataClasses ==
  {SubSeq(ALL_STRUCTS, 1, n) : n \in 0..Len(ALL_STRUCTS)}
  \cup {<<Aliases[i][1], Aliases[i][2], Aliases[i][1]>> : i \in 1..Len(Aliases)}

\* extension identifiers the tables do not hold: of the three prefix
\* families, and of other vendors
OtherExtensions ==
  {<<"VK", "_", "KHR", "_", "16bit", "_", "storage">>,
   <<"VK", "_", "EXT", "_", "4444", "_", "formats">>,
   <<"VK", "_", "IMG", "_", "filter", "_", "cubic">>,
   <<"VK", "_", "ANDROID", "_", "external", "_", "memory">>,
   <<"VK", "_", "GOOGLE", "_", "display", "_", "timing">>,
   <<"VK", "_", "NV", "_", "ray", "_", "tracing">>}

ExtensionIdentifiers ==
  {VULKAN_EXTENSIONS_AND_STRUCTS_MAPPING[i].extension :
     i \in 1..Len(VULKAN_EXTENSIONS_AND_STRUCTS_MAPPING)} \cup OtherExtensions

\* the identifiers get_struct_name is called with: the entries of ALL_STRUCTS,
\* the aliases, the classes they are bound to, and the structures the
\* extensions contribute
StructIdentifiers ==
  {ALL_STRUCTS[i] : i \in 1..Len(ALL_STRUCTS)}
  \cup {Aliases[i][1] : i \in 1..Len(Aliases)} \cup {Aliases[i][2] : i \in 1..Len(Aliases)}
  \cup UNION {{VULKAN_EXTENSIONS_AND_STRUCTS_MAPPING[i].structs[j] :
                 j \in 1..Len(VULKAN_EXTENSIONS_AND_STRUCTS_MAPPING[i].structs)} :
              i \in 1..Len(VULKAN_EXTENSIONS_AND_STRUCTS_MAPPING)}

\* a call of a function of the generator: the function, its argument, the
\* class the argument is bound to, and whether the argument comes from the
\* tables or is the result of an earlier call
GenCall(fn, arg, class, from) == [fn |-> fn, arg |-> arg, class |-> class, from |-> from]

GenCalls(c) ==
  \/ \E n \in StructIdentifiers :
        c = GenCall("get_struct_name", Name(n), Name(ClassName(n)), "table")
  \/ \E e \in ExtensionIdentifiers, fn \in {"get_vkjson_struct_name", "get_vkjson_struct_variable_name"} :
        c = GenCall(fn, Name(e), Name(e), "table")
  \/ \E m \in Mappings : c = GenCall("gen_h", m, m, "table")
  \/ \E d \in DataClasses : c = GenCall("generate_struct_template", d, d, "table")
  \/ c = GenCall("gen_cc", <<>>, <<>>, "table")

GenInit ==
  /\ pc = "call"
  /\ GenCalls(call)
  /\ target = <<>>
  /\ ret = FALSE
  /\ errors = Nullptr
  /\ visited = <<>>
  /\ branch = "none"
  /\ out = <<>>

\* get_struct_name(struct_name)
CallGetStructName ==
  /\ pc = "call"
  /\ call.fn = "get_struct_name"
  /\ out' = get_struct_name(call.arg)
  /\ pc' = "done"
  /\ UNCHANGED <<call, target, ret, errors, visited, branch>>

\* get_vkjson_struct_name(extension_name)
CallGetVkjsonStructName ==
  /\ pc = "call"
  /\ call.fn = "get_vkjson_struct_name"
  /\ out' = get_vkjson_struct_name(call.arg)
  /\ pc' = "done"
  /\ UNCHANGED <<call, target, ret, errors, visited, branch>>

\* get_vkjson_struct_variable_name(extension_name)
CallGetVkjsonStructVariableName ==
  /\ pc = "call"
  /\ call.fn = "get_vkjson_struct_variable_name"
  /\ out' = get_vkjson_struct_variable_name(call.arg)
  /\ pc' = "done"
  /\ UNCHANGED <<call, target, ret, errors, visited, branch>>

\* gen_h: the wrappers generate_extension_struct_definition writes, and the
\* entries it returns written into struct VkJsonDevice (the entries of the
\* core bundles and of the extension-independent structures follow them)
CallGenH ==
  /\ pc = "call"
  /\ call.fn = "gen_h"
  /\ \E r \in {generate_extension_struct_definition(call.arg)} :
        out' = [structs |-> r.written, VkJsonDevice |-> r.entries]
  /\ pc' = "done"
  /\ UNCHANGED <<call, target, ret, errors, visited, branch>>

\* generate_struct_template(data_classes)
CallGenerateStructTemplate ==
  /\ pc = "call"
  /\ call.fn = "generate_struct_template"
  /\ out' = generate_struct_template(call.arg)
  /\ pc' = "done"
  /\ UNCHANGED <<call, target, ret, errors, visited, branch>>

\* gen_cc: the Iterate functions of vkjson.cc and, of Iterate(VkJsonDevice),
\* the visits of the base versions
CallGenCc ==
  /\ pc = "call"
  /\ call.fn = "gen_cc"
  /\ out' = [functions |-> IterateFunctions, device |-> DeviceVisits]
  /\ pc' = "done"
  /\ UNCHANGED <<call, target, ret, errors, visited, branch>>

\* the name derived is handed to get_struct_name again
DeriveAgain ==
  /\ pc = "done"
  /\ call.fn = "get_struct_name"
  /\ call.from = "table"
  /\ call' = GenCall("get_struct_name", out, call.class, "output")
  /\ target' = out
  /\ pc' = "call"
  /\ UNCHANGED <<ret, errors, visited, branch, out>>

GenNext ==
  \/ CallGetStructName
  \/ CallGetVkjsonStructName
  \/ CallGetVkjsonStructVariableName
  \/ CallGenH
  \/ CallGenerateStructTemplate
  \/ CallGenCc
  \/ DeriveAgain

SpecGen == GenInit /\ [][GenNext]_vars

(***************************************************************************)
(* The device enumeration the generator writes (VkJsonGetDevice), run      *)
(* against a driver that reports an extension list, an API version and the *)
(* two layout counts.                                                      *)
(***************************************************************************)
\* a generator that links every structure whatever the category
AnyCategory(structs, struct_category) == structs

\* the structures of a list whose name holds the category
OfCategory(structs, struct_category) ==
  SelectSeq(structs, LAMBDA n : contains(Name(n), Spell(struct_category)))

\* the block generate_vk_extension_structs_init_code writes for an extension:
\* the name HasExtension is asked for, the wrapper whose reported is set, and
\* the members linked
ExtensionBlock(extension, structs) ==
  [extension |-> Join(Name(extension)),
   wrapper |-> "device." \o Join(get_vkjson_struct_variable_name(Name(extension))),
   links |-> [j \in 1..Len(structs) |->
                "device." \o Join(get_vkjson_struct_variable_name(Name(extension)))
                \o "." \o Join(get_struct_name(Name(structs[j])))]]

\* generate_vk_extension_structs_init_code(mapping, struct_category, next_pointer):
\* the blocks with struct_count > 0
generate_vk_extension_structs_init_code(mapping, struct_category) ==
  SelectSeq([i \in 1..Len(mapping) |->
               ExtensionBlock(mapping[i].extension,
                              OfCategory(mapping[i].structs, struct_category))],
            LAMBDA b : Len(b.links) > 0)

\* generate_vk_version_structs_initialization(version_data, struct_type_keyword,
\* next_pointer): the members linked
generate_vk_version_structs_initialization(version_data, struct_type_keyword) ==
  [j \in 1..Len(OfCategory(version_data, struct_type_keyword)) |->
     "device." \o Join(get_struct_name(Name(OfCategory(version_data, struct_type_keyword)[j])))]

\* one half of generate_vk_core_structs_init_code(version): the member linked
\* into the chain of the category
generate_vk_core_structs_init_code(version, struct_category) ==
  [j \in 1..Len(OfCategory(VULKAN_CORES_AND_STRUCTS_MAPPING[version].structs, struct_category)) |->
     "device." \o Join(lower(Name(VULKAN_CORES_AND_STRUCTS_MAPPING[version].version)))
     \o "." \o (IF struct_category = "Properties" THEN "properties" ELSE "features")]

\* a check that any extension at all is reported
HasAnyExtension(extension_name, extensions) == extensions # <<>>

\* HasExtension: strcmp(extension.extensionName, extension_name) == 0 for
\* some entry of the list
HasExtension(extension_name, extensions) ==
  \E k \in 1..Len(extensions) : extensions[k] = extension_name

\* X.pNext = next.pNext; next.pNext = &X, for the members in order: each
\* becomes the head of the chain
Link(chain, links) == [k \in 1..Len(links) |-> links[Len(links) + 1 - k]] \o chain

\* the pNext members after X.pNext = next.pNext; next.pNext = &X
SetPNext(pNext, next, X) ==
  [n \in DOMAIN pNext |-> IF n = X THEN pNext[next] ELSE IF n = next THEN X ELSE pNext[n]]

\* the blocks of one category run against device.extensions, from block i
\* on: st holds the chain, the wrappers reported and the structures linked
RECURSIVE RunBlocks(_, _, _, _)
RunBlocks(blocks, i, extensions, st) ==
  IF i > Len(blocks) THEN st
  ELSE RunBlocks(blocks, i + 1, extensions,
                 IF HasExtension(blocks[i].extension, extensions)
                 THEN [chain |-> Link(st.chain, blocks[i].links),
                       reported |-> st.reported \cup {blocks[i].wrapper},
                       linked |-> st.linked \o blocks[i].links]
                 ELSE st)

\* what the driver reports
Drivers ==
  [extensions : {<<>>, <<"VK_KHR_variable_pointers">>,
                 <<"VK_KHR_driver_properties", "VK_EXT_custom_border_color">>,
                 <<"VK_KHR_variable_pointers2", "vk_khr_driver_properties", "VK_KHR_driver">>,
                 <<"VK_KHR_shader_float_controls", "VK_KHR_shader_float16_int8_",
                   "VK_IMG_relaxed_line_rasterization">>,
                 [i \in 1..Len(Extensions) |-> Extensions[i]]},
   apiVersion : ApiVersions,
   copySrcLayoutCount : {0, 1, MaxElems},
   copyDstLayoutCount : {0, 1, MaxElems}]

\* VkJsonDevice device, as far as the enumeration of the chains goes
NewDevice ==
  [extensions |-> <<>>, reported |-> {}, apiVersion |-> Zero,
   copySrcLayoutCount |-> 0, copyDstLayoutCount |-> 0,
   copy_src_layouts |-> 0, copy_dst_layouts |-> 0,
   pCopySrcLayouts |-> "nullptr", pCopyDstLayouts |-> "nullptr"]

EnumInit ==
  /\ pc = "call"
  /\ \E d \in Drivers : call = [fn |-> "VkJsonGetDevice", driver |-> d]
  /\ target = NewDevice
  /\ ret = FALSE
  /\ errors = Nullptr
  /\ visited = <<>>
  /\ branch = [properties |-> <<>>, features |-> <<>>]
  /\ out = JNull

\* vkEnumerateDeviceExtensionProperties, twice
EnumerateDeviceExtensions ==
  /\ pc = "call"
  /\ call.fn = "VkJsonGetDevice"
  /\ target' = [target EXCEPT !.extensions = call.driver.extensions]
  /\ pc' = "properties"
  /\ UNCHANGED <<call, ret, errors, visited, branch, out>>

\* the record of a query: the tier, the chain handed to the driver, and the
\* storage attached to the two layout lists
Query(category, tier, chain, device) ==
  [op |-> "query", category |-> category, tier |-> tier, chain |-> chain,
   copy_src_layouts |-> device.copy_src_layouts, pCopySrcLayouts |-> device.pCopySrcLayouts,
   copy_dst_layouts |-> device.copy_dst_layouts, pCopyDstLayouts |-> device.pCopyDstLayouts]

\* the record of the links of a tier
Links(category, tier, links) ==
  [k \in 1..Len(links) |-> [op |-> "link", category |-> category, tier |-> tier, struct |-> links[k]]]

\* what vkGetPhysicalDeviceProperties2 writes: the API version, and the two
\* counts when the structure of the newest bundle is in the chain
Answer(device, chain, driver) ==
  IF \E k \in 1..Len(chain) : chain[k] = "device.core14.properties"
  THEN [device EXCEPT !.apiVersion = driver.apiVersion,
                      !.copySrcLayoutCount = driver.copySrcLayoutCount,
                      !.copyDstLayoutCount = driver.copyDstLayoutCount]
  ELSE [device EXCEPT !.apiVersion = driver.apiVersion]

\* the blocks of the extensions of a category, then the query of the category
BaseQuery(category, at, next) ==
  /\ pc = at
  /\ \E st \in {RunBlocks(generate_vk_extension_structs_init_code(VULKAN_EXTENSIONS_AND_STRUCTS_MAPPING,
                                                                  category),
                          1, target.extensions,
                          [chain |-> <<>>, reported |-> target.reported, linked |-> <<>>])} :
        /\ branch' = [branch EXCEPT ![at] = st.chain]
        /\ target' = IF category = "Properties"
                     THEN Answer([target EXCEPT !.reported = st.reported], st.chain, call.driver)
                     ELSE [target EXCEPT !.reported = st.reported]
        /\ visited' = visited \o Links(category, "base", st.linked)
                      \o <<Query(category, "base", st.chain, target)>>
  /\ pc' = next
  /\ UNCHANGED <<call, ret, errors, out>>

BaseProperties == BaseQuery("Properties", "properties", "features")

BaseFeatures == BaseQuery("Features", "features", "1.1")

\* a two-pass protocol that always asks again
AlwaysAgain(device) == TRUE

\* if (copySrcLayoutCount > 0 || copyDstLayoutCount > 0)
AskAgain(device) == device.copySrcLayoutCount > 0 \/ device.copyDstLayoutCount > 0

\* the lists with a count above zero resized and attached
Attached(device) ==
  [device EXCEPT
     !.copy_src_layouts = IF device.copySrcLayoutCount > 0 THEN device.copySrcLayoutCount ELSE @,
     !.pCopySrcLayouts = IF device.copySrcLayoutCount > 0 THEN "copy_src_layouts" ELSE @,
     !.copy_dst_layouts = IF device.copyDstLayoutCount > 0 THEN device.copyDstLayoutCount ELSE @,
     !.pCopyDstLayouts = IF device.copyDstLayoutCount > 0 THEN "copy_dst_layouts" ELSE @]

\* the second pass of the newest tier, given the device after the first
SecondPass(tier, chain, device) ==
  IF tier = "1.4" /\ AskAgain(device)
  THEN <<Query("Properties", tier, chain, Attached(device))>>
  ELSE <<>>

\* the body of if (device.properties.apiVersion >= version): the members of
\* each category linked, and the query of the category after them
VersionBlock(at, version, properties, features, next) ==
  /\ pc = at
  /\ IF NumLess(target.apiVersion, version)
     THEN UNCHANGED <<target, branch, visited>>
     ELSE /\ branch' = [properties |-> Link(branch.properties, properties),
                        features |-> Link(branch.features, features)]
          /\ \E device \in {Answer(target, Link(branch.properties, properties), call.driver)} :
                /\ target' = IF at = "1.4" /\ AskAgain(device) THEN Attached(device) ELSE device
                /\ visited' = visited
                              \o Links("Properties", at, properties)
                              \o <<Query("Properties", at, Link(branch.properties, properties), target)>>
                              \o SecondPass(at, Link(branch.properties, properties), device)
                              \o Links("Features", at, features)
                              \o <<Query("Features", at, Link(branch.features, features), device)>>
  /\ pc' = next
  /\ UNCHANGED <<call, ret, errors, out>>

Version11 ==
  VersionBlock("1.1", VK_API_VERSION_1_1,
               generate_vk_version_structs_initialization(VK_VERSION_1_1, "Properties"),
               generate_vk_version_structs_initialization(VK_VERSION_1_1, "Features"), "1.2")

Version12 ==
  VersionBlock("1.2", VK_API_VERSION_1_2,
               generate_vk_core_structs_init_code(1, "Properties")
               \o generate_vk_core_structs_init_code(2, "Properties"),
               generate_vk_core_structs_init_code(1, "Features")
               \o generate_vk_core_structs_init_code(2, "Features"), "1.3")

Version13 ==
  VersionBlock("1.3", VK_API_VERSION_1_3,
               generate_vk_core_structs_init_code(3, "Properties"),
               generate_vk_core_structs_init_code(3, "Features"), "1.4")

Version14 ==
  VersionBlock("1.4", VK_API_VERSION_1_4,
               generate_vk_core_structs_init_code(4, "Properties"),
               generate_vk_core_structs_init_code(4, "Features"), "return")

\* return device
ReturnDevice ==
  /\ pc = "return"
  /\ out' = target
  /\ pc' = "done"
  /\ UNCHANGED <<call, target, ret, errors, visited, branch>>

\* the VkJsonDevice the enumeration filled: the API version and the reported
\* flags it learned, every other member filled
Enumerated(device) ==
  Device(device.apiVersion, 1,
         {e \in ExtensionNames :
            \E i \in 1..Len(VULKAN_EXTENSIONS_AND_STRUCTS_MAPPING) :
               /\ Join(Name(VULKAN_EXTENSIONS_AND_STRUCTS_MAPPING[i].extension)) = e
               /\ ("device." \o Join(get_vkjson_struct_variable_name(
                                        Name(VULKAN_EXTENSIONS_AND_STRUCTS_MAPPING[i].extension))))
                    \in device.reported},
         1)

\* VkJsonDeviceToJson(VkJsonGetDevice(physical_device))
EncodeEnumerated ==
  /\ pc = "done"
  /\ call.fn = "VkJsonGetDevice"
  /\ out' = VkTypeToJson(TDevice, Enumerated(target)).root
  /\ pc' = "encoded"
  /\ UNCHANGED <<call, target, ret, errors, visited, branch>>

EnumNext ==
  \/ EncodeEnumerated
  \/ EnumerateDeviceExtensions
  \/ BaseProperties
  \/ BaseFeatures
  \/ Version11
  \/ Version12
  \/ Version13
  \/ Version14
  \/ ReturnDevice

SpecEnum == EnumInit /\ [][EnumNext]_vars

(***************************************************************************)
(* The two handle-type sweeps of VkJsonGetDevice.                          *)
(***************************************************************************)
\* the first and the last bit of each enumeration
VK_EXTERNAL_FENCE_HANDLE_TYPE_OPAQUE_FD_BIT == 1
VK_EXTERNAL_FENCE_HANDLE_TYPE_SYNC_FD_BIT == 8
VK_EXTERNAL_SEMAPHORE_HANDLE_TYPE_OPAQUE_FD_BIT == 1
VK_EXTERNAL_SEMAPHORE_HANDLE_TYPE_SYNC_FD_BIT == 16

\* what the driver may write into the properties of a handle type
SweepAnswers ==
  {[exportFromImportedHandleTypes |-> a[1], compatibleHandleTypes |-> a[2], features |-> a[3]] :
     a \in {<<0, 0, 0>>, <<1, 0, 0>>, <<0, 2, 0>>, <<0, 0, 3>>, <<1, 2, 3>>}}

\* a sweep that keeps every answer
RetainedAlways(properties) == TRUE

\* if (exportFromImportedHandleTypes || compatibleHandleTypes || features)
Retained(properties) ==
  \/ properties.exportFromImportedHandleTypes # 0
  \/ properties.compatibleHandleTypes # 0
  \/ properties.features # 0

\* for (handle_type = first; ...): the map is empty and nothing was asked
SweepInit ==
  /\ pc = "for"
  /\ \E sweep \in {[fn |-> "fence", first |-> VK_EXTERNAL_FENCE_HANDLE_TYPE_OPAQUE_FD_BIT,
                    last |-> VK_EXTERNAL_FENCE_HANDLE_TYPE_SYNC_FD_BIT],
                   [fn |-> "semaphore", first |-> VK_EXTERNAL_SEMAPHORE_HANDLE_TYPE_OPAQUE_FD_BIT,
                    last |-> VK_EXTERNAL_SEMAPHORE_HANDLE_TYPE_SYNC_FD_BIT]} :
        /\ call = sweep
        /\ branch = sweep.first
  /\ target = [exportFromImportedHandleTypes |-> 0, compatibleHandleTypes |-> 0, features |-> 0]
  /\ ret = FALSE
  /\ errors = Nullptr
  /\ visited = <<>>
  /\ out = <<>>

\* one turn of the loop: the query, the insert when a field is set, and
\* handle_type << 1
SweepBody(fn) ==
  /\ pc = "for"
  /\ call.fn = fn
  /\ branch <= call.last
  /\ \E properties \in SweepAnswers :
        /\ target' = properties
        /\ visited' = Append(visited, [handle_type |-> branch, properties |-> properties])
        /\ out' = IF Retained(properties) THEN MapInsert(out, <<branch, properties>>).map ELSE out
  /\ branch' = branch * 2
  /\ UNCHANGED <<pc, call, ret, errors>>

\* handle_type <= last is false: the loop ends
SweepExit(fn) ==
  /\ pc = "for"
  /\ call.fn = fn
  /\ ~(branch <= call.last)
  /\ pc' = "done"
  /\ UNCHANGED <<call, target, ret, errors, visited, branch, out>>

FenceSweep == SweepBody("fence")

FenceSweepExit == SweepExit("fence")

SemaphoreSweep == SweepBody("semaphore")

SemaphoreSweepExit == SweepExit("semaphore")

SweepNext ==
  \/ FenceSweep
  \/ FenceSweepExit
  \/ SemaphoreSweep
  \/ SemaphoreSweepExit

SpecSweep == SweepInit /\ [][SweepNext]_vars

(***************************************************************************)
(* The instance enumeration the generator writes (VkJsonGetInstance), run  *)
(* against a driver whose calls may fail.                                  *)
(***************************************************************************)
\* VkResult: success, a positive status and an error
VkResults == {"VK_SUCCESS", "VK_INCOMPLETE", "VK_ERROR_OUT_OF_HOST_MEMORY"}

\* what the driver holds: the instance layers (each with one extension), the
\* instance extensions, the physical devices in enumeration order, and the
\* device groups as lists of member handles
InstanceDrivers ==
  {[layers |-> l, extensions |-> <<"VK_KHR_surface">>, devices |-> d[1], groups |-> d[2],
    api_version |-> 1] :
     l \in {<<>>, <<"L1", "L2">>},
     d \in {<<<<>>, <<>>>>,
            <<<<"h1">>, <<<<"h1">>>>>>,
            <<<<"h1", "h2">>, <<<<"h2", "h1">>>>>>,
            <<<<"h1", "h2">>, <<<<"h1">>, <<"h2">>>>>>,
            <<<<"h1", "h2", "h3">>, <<<<"h3", "h1">>, <<"h2">>>>>>,
            <<<<"h3", "h2", "h1">>, <<<<"h2">>, <<"h3">>, <<"h1">>>>>>}}

\* the device extensions the driver holds for a handle
DeviceExtensionsOf(handle) ==
  CASE handle = "h1" -> <<"VK_KHR_swapchain">>
    [] handle = "h2" -> <<>>
    [] handle = "h3" -> <<"VK_KHR_swapchain", "VK_KHR_driver_properties">>

\* VkJsonInstance(): api_version(0) and four empty vectors
NewInstance ==
  [api_version |-> 0, layers |-> <<>>, extensions |-> <<>>, devices |-> <<>>,
   device_groups |-> <<>>]

\* a driver call in the record of calls
DriverCall(fn, level, result) == [fn |-> fn, level |-> level, result |-> result]

\* EnumerateExtensions(layer_name, extensions): false when either call does
\* not succeed
EnumerateExtensions(held, r1, r2) ==
  IF r1 # "VK_SUCCESS" THEN [ok |-> FALSE, extensions |-> <<>>,
                             calls |-> <<DriverCall("vkEnumerateInstanceExtensionProperties", "instance", r1)>>]
  ELSE [ok |-> r2 = "VK_SUCCESS",
        extensions |-> IF r2 = "VK_SUCCESS" THEN held ELSE [i \in 1..Len(held) |-> ""],
        calls |-> <<DriverCall("vkEnumerateInstanceExtensionProperties", "instance", r1),
                    DriverCall("vkEnumerateInstanceExtensionProperties", "instance", r2)>>]

\* a count query and a data query of VkJsonGetDevice, neither result looked
\* at: a count the driver did not write stays 0, data it did not write stays
\* as resize left it
DeviceEntries(held, r1, r2) ==
  IF r1 # "VK_SUCCESS" \/ Len(held) = 0 THEN <<>>
  ELSE IF r2 = "VK_SUCCESS" THEN held ELSE [i \in 1..Len(held) |-> ""]

\* the calls VkJsonGetDevice makes for a list: the second only if (count > 0)
DeviceCalls(fn, held, r1, r2) ==
  IF r1 # "VK_SUCCESS" \/ Len(held) = 0 THEN <<DriverCall(fn, "device", r1)>>
  ELSE <<DriverCall(fn, "device", r1), DriverCall(fn, "device", r2)>>

\* a return that leaves the driver instance alive
LeakInstance(calls) == calls

\* vkDestroyInstance(vkinstance, nullptr)
DestroyInstance(calls) == Append(calls, DriverCall("vkDestroyInstance", "instance", "VK_SUCCESS"))

\* a return that hands back what was gathered so far
ReturnGathered(calls) ==
  /\ visited' = calls
  /\ out' = target
  /\ pc' = "done"
  /\ UNCHANGED <<call, target, ret, errors, branch>>

\* return VkJsonInstance(), before the driver instance exists
ReturnDefault(calls) ==
  /\ visited' = calls
  /\ out' = NewInstance
  /\ pc' = "done"
  /\ UNCHANGED <<call, target, ret, errors, branch>>

\* vkDestroyInstance(vkinstance, nullptr); return VkJsonInstance()
DestroyAndReturnDefault(calls) ==
  /\ visited' = DestroyInstance(calls)
  /\ out' = NewInstance
  /\ pc' = "done"
  /\ UNCHANGED <<call, target, ret, errors, branch>>

\* the next position, with the instance, the locals and the calls made
Continue(next, instance, locals, calls) ==
  /\ pc' = next
  /\ target' = instance
  /\ branch' = locals
  /\ visited' = calls
  /\ UNCHANGED <<call, ret, errors, out>>

InstanceInit ==
  /\ pc = "layers"
  /\ \E d \in InstanceDrivers : call = [fn |-> "VkJsonGetInstance", driver |-> d]
  /\ target = NewInstance
  /\ ret = FALSE
  /\ errors = Nullptr
  /\ visited = <<>>
  /\ branch = [i |-> 0, layers |-> <<>>, devices |-> <<>>, device_map |-> <<>>,
               group_properties |-> <<>>, device_inds |-> <<>>]
  /\ out = NewInstance

\* vkEnumerateInstanceLayerProperties for the count and, if (count > 0), for
\* the layers
EnumerateInstanceLayers ==
  /\ pc = "layers"
  /\ \E r1, r2 \in VkResults :
        IF r1 # "VK_SUCCESS"
        THEN ReturnDefault(Append(visited, DriverCall("vkEnumerateInstanceLayerProperties", "instance", r1)))
        ELSE IF Len(call.driver.layers) = 0
        THEN Continue("extensions", target, branch,
                      Append(visited, DriverCall("vkEnumerateInstanceLayerProperties", "instance", r1)))
        ELSE IF r2 # "VK_SUCCESS"
        THEN ReturnDefault(visited \o <<DriverCall("vkEnumerateInstanceLayerProperties", "instance", r1),
                                        DriverCall("vkEnumerateInstanceLayerProperties", "instance", r2)>>)
        ELSE Continue("layer", target, [branch EXCEPT !.layers = call.driver.layers, !.i = 0],
                      visited \o <<DriverCall("vkEnumerateInstanceLayerProperties", "instance", r1),
                                   DriverCall("vkEnumerateInstanceLayerProperties", "instance", r2)>>)

\* for (auto& layer : layers): push_back and EnumerateExtensions of the layer
LayerExtensions ==
  /\ pc = "layer"
  /\ IF branch.i >= Len(branch.layers)
     THEN Continue("extensions", target, branch, visited)
     ELSE \E r1, r2 \in VkResults :
             \E e \in {EnumerateExtensions(<<"VK_EXT_layer">>, r1, r2)} :
                IF ~e.ok THEN ReturnDefault(visited \o e.calls)
                ELSE Continue("layer",
                              [target EXCEPT !.layers =
                                 Append(@, [properties |-> branch.layers[branch.i + 1],
                                            extensions |-> e.extensions])],
                              [branch EXCEPT !.i = @ + 1], visited \o e.calls)

\* if (!EnumerateExtensions(nullptr, &instance.extensions))
InstanceExtensions ==
  /\ pc = "extensions"
  /\ \E r1, r2 \in VkResults :
        \E e \in {EnumerateExtensions(call.driver.extensions, r1, r2)} :
           IF ~e.ok THEN ReturnDefault(visited \o e.calls)
           ELSE Continue("create", [target EXCEPT !.extensions = e.extensions], branch,
                         visited \o e.calls)

\* vkCreateInstance
CreateInstance ==
  /\ pc = "create"
  /\ \E r \in VkResults :
        IF r # "VK_SUCCESS"
        THEN ReturnDefault(Append(visited, DriverCall("vkCreateInstance", "instance", r)))
        ELSE Continue("devices", target, branch,
                      Append(visited, DriverCall("vkCreateInstance", "instance", r)))

\* vkEnumeratePhysicalDevices for the count and for the handles
EnumeratePhysicalDevices ==
  /\ pc = "devices"
  /\ \E r1, r2 \in VkResults :
        IF r1 # "VK_SUCCESS"
        THEN DestroyAndReturnDefault(Append(visited, DriverCall("vkEnumeratePhysicalDevices", "instance", r1)))
        ELSE IF r2 # "VK_SUCCESS"
        THEN DestroyAndReturnDefault(visited \o <<DriverCall("vkEnumeratePhysicalDevices", "instance", r1),
                                                  DriverCall("vkEnumeratePhysicalDevices", "instance", r2)>>)
        ELSE Continue("device", target, [branch EXCEPT !.devices = call.driver.devices, !.i = 0],
                      visited \o <<DriverCall("vkEnumeratePhysicalDevices", "instance", r1),
                                   DriverCall("vkEnumeratePhysicalDevices", "instance", r2)>>)

\* for (i = 0; i < sz; ++i): device_map.insert(make_pair(devices[i], i)) and
\* instance.devices.emplace_back(VkJsonGetDevice(devices[i]))
GetDevice ==
  /\ pc = "device"
  /\ IF branch.i >= Len(branch.devices)
     THEN Continue("version", target, branch, visited)
     ELSE \E r1, r2 \in VkResults :
             Continue("device",
                      [target EXCEPT !.devices =
                         Append(@, [handle |-> branch.devices[branch.i + 1],
                                    extensions |-> DeviceEntries(DeviceExtensionsOf(branch.devices[branch.i + 1]),
                                                                 r1, r2)])],
                      [branch EXCEPT !.i = @ + 1,
                                     !.device_map = MapInsert(@, <<branch.devices[branch.i + 1], branch.i>>).map],
                      visited \o <<DriverCall("VkJsonGetDevice", "device", "VK_SUCCESS")>>
                      \o DeviceCalls("vkEnumerateDeviceExtensionProperties",
                                     DeviceExtensionsOf(branch.devices[branch.i + 1]), r1, r2))

\* vkEnumerateInstanceVersion(&instance.api_version)
EnumerateInstanceVersion ==
  /\ pc = "version"
  /\ \E r \in VkResults :
        IF r # "VK_SUCCESS"
        THEN DestroyAndReturnDefault(Append(visited, DriverCall("vkEnumerateInstanceVersion", "instance", r)))
        ELSE Continue("groups", [target EXCEPT !.api_version = call.driver.api_version], branch,
                      Append(visited, DriverCall("vkEnumerateInstanceVersion", "instance", r)))

\* vkEnumeratePhysicalDeviceGroups for the count and for the groups;
\* VkJsonDeviceGroup device_group is declared before the second call
EnumeratePhysicalDeviceGroups ==
  /\ pc = "groups"
  /\ \E r1, r2 \in VkResults :
        IF r1 # "VK_SUCCESS"
        THEN DestroyAndReturnDefault(Append(visited, DriverCall("vkEnumeratePhysicalDeviceGroups", "instance", r1)))
        ELSE IF r2 # "VK_SUCCESS"
        THEN DestroyAndReturnDefault(visited \o <<DriverCall("vkEnumeratePhysicalDeviceGroups", "instance", r1),
                                                  DriverCall("vkEnumeratePhysicalDeviceGroups", "instance", r2)>>)
        ELSE Continue("group", target,
                      [branch EXCEPT !.group_properties = call.driver.groups, !.i = 0,
                                     !.device_inds = <<>>],
                      visited \o <<DriverCall("vkEnumeratePhysicalDeviceGroups", "instance", r1),
                                   DriverCall("vkEnumeratePhysicalDeviceGroups", "instance", r2)>>)

\* device_map[handle]: the index stored for the handle, 0 for one not stored
DeviceMapAt(device_map, handle) ==
  IF handle \in DOMAIN device_map THEN device_map[handle] ELSE 0

\* device_group.device_inds.push_back(device_map[physicalDevices[i]]) for
\* every member, onto the list device_group holds already
PushBack(device_inds, device_map, physicalDevices) ==
  device_inds \o [i \in 1..Len(physicalDevices) |-> DeviceMapAt(device_map, physicalDevices[i])]

\* for (auto properties : group_properties): the indices pushed onto
\* device_group, and device_group pushed onto instance.device_groups
CollectGroup ==
  /\ pc = "group"
  /\ IF branch.i >= Len(branch.group_properties)
     THEN Continue("return", target, branch, visited)
     ELSE Continue("group",
                   [target EXCEPT !.device_groups =
                      Append(@, [properties |-> branch.group_properties[branch.i + 1],
                                 device_inds |-> PushBack(branch.device_inds, branch.device_map,
                                                          branch.group_properties[branch.i + 1])])],
                   [branch EXCEPT !.i = @ + 1,
                                  !.device_inds = PushBack(branch.device_inds, branch.device_map,
                                                           branch.group_properties[branch.i + 1])],
                   visited)

\* vkDestroyInstance(vkinstance, nullptr); return instance
ReturnInstance ==
  /\ pc = "return"
  /\ visited' = DestroyInstance(visited)
  /\ out' = target
  /\ pc' = "done"
  /\ UNCHANGED <<call, target, ret, errors, branch>>

InstanceNext ==
  \/ EnumerateInstanceLayers
  \/ LayerExtensions
  \/ InstanceExtensions
  \/ CreateInstance
  \/ EnumeratePhysicalDevices
  \/ GetDevice
  \/ EnumerateInstanceVersion
  \/ EnumeratePhysicalDeviceGroups
  \/ CollectGroup
  \/ ReturnInstance

SpecInstance == InstanceInit /\ [][InstanceNext]_vars

(***************************************************************************)
(* Properties of the public entry points (checked under Spec).             *)
(***************************************************************************)
Done(fn) == pc = "done" /\ call.fn = fn

FromJsonReturned ==
  Done("VkJsonDeviceFromJson") \/ Done("VkJsonImageFormatPropertiesFromJson")

\* C1: the document encoded from a device holds the key of an extension
\* if and only if the wrapper of that extension has its reported flag set,
\* whatever else the snapshot holds.
C1_KeyIffReported ==
  Done("VkJsonDeviceToJson") =>
    \A e \in ExtensionNames : (e \in DOMAIN out.members) <=> call.value[e].reported

\* the keys of tier 1.k and of every older tier, newest tier first
KeysFromTier(k) ==
  (IF k >= 4 THEN <<"core14">> ELSE <<>>)
  \o (IF k >= 3 THEN <<"core13">> ELSE <<>>)
  \o (IF k >= 2 THEN <<"core11", "core12">> ELSE <<>>)
  \o (IF k >= 1
      THEN <<"subgroupProperties", "pointClippingProperties", "multiviewProperties",
             "idProperties", "maintenance3Properties", "multiviewFeatures",
             "variablePointersFeatures", "protectedMemoryFeatures",
             "samplerYcbcrConversionFeatures", "shaderDrawParameterFeatures",
             "bit16StorageFeatures", "externalFenceProperties",
             "externalSemaphoreProperties">>
      ELSE <<>>)
  \o <<"properties", "features", "memory", "queues", "extensions", "layers", "formats">>

IsTierKey(key) == key \notin ExtensionNames

\* C2: for an API version whose major.minor is tier 1.k, k in 0..4, the
\* tier keys the device traversal visits are those of tier k and of every
\* older tier, newest tier first, and the document holds exactly them
\* beside the keys of extensions.
C2_TierKeysNewestFirst ==
  Done("VkJsonDeviceToJson") =>
    \A k \in 0..4 :
       WithoutPatch(call.value["properties"].apiVersion) = VK_MAKE_API_VERSION(0, 1, k, 0) =>
         /\ SelectSeq(visited, IsTierKey) = KeysFromTier(k)
         /\ DOMAIN out.members \ ExtensionNames
              = {KeysFromTier(k)[i] : i \in 1..Len(KeysFromTier(k))}

\* a 1.2 device with a patch version and two reported extensions: core11
\* comes first, then core12, the 1.1 keys, the 1.0 keys and the extensions
C2_Witness ==
  /\ Done("VkJsonDeviceToJson")
  /\ call.value["properties"].apiVersion = VK_MAKE_API_VERSION(0, 1, 2, 1)
  /\ Len(visited) = Len(KeysFromTier(2)) + 2
  /\ visited[1] = "core11"
  /\ visited[Len(KeysFromTier(2))] = "formats"
  /\ visited[Len(visited)] = "VK_KHR_driver_properties"

\* the document declares the API version of the given tier
DeclaresTier(root, version) ==
  /\ Member(root, "properties").type = "objectValue"
  /\ Member(Member(root, "properties"), "apiVersion").type = "realValue"
  /\ WithoutPatch(Member(Member(root, "properties"), "apiVersion").num) = version

\* C3: decoding a device document that declares tier 1.4 and lacks a key
\* of the oldest tier fails, and the error reported is that the key is
\* missing.
C3_NewestTierRequiresOldestKeys ==
  /\ Done("VkJsonDeviceFromJson")
  /\ call.json.wellformed
  /\ call.json.root.type = "objectValue"
  /\ DeclaresTier(call.json.root, VK_API_VERSION_1_4)
  => \A key \in {"features", "memory", "queues", "extensions", "layers", "formats"} :
        IsNull(Member(call.json.root, key)) =>
          /\ ~ret
          /\ errors.ptr => errors = ErrorString(key \o " missing.")

\* v holds nothing of b: wherever b held something else than a fresh object
\* holds, v holds another value
RECURSIVE NoOldData(_, _, _)
NoOldData(T, v, b) ==
  CASE T.k = "struct" ->
         \A f \in FieldNames(T.name) : NoOldData(FieldType(T.name, f), v[f], b[f])
    [] T.k = "device" ->
         \A key \in DeviceMembers : NoOldData(MemberType(key), v[key], b[key])
    [] T.k = "wrapper" ->
         /\ v.reported = FALSE \/ v.reported # b.reported
         /\ v.fields = Zero \/ v.fields # b.fields
    [] T.k = "array" -> \A i \in 1..T.n : NoOldData(T.of, v[i], b[i])
    [] OTHER -> v = Default(T) \/ v # b

Decodes(T, object, i) ==
  /\ ~IsNull(Member(object, Fields(T)[i].name))
  /\ AsValue(Fields(T)[i].type, Member(object, Fields(T)[i].name),
             Default(Fields(T)[i].type)).ok

\* the key the decode of the object fails at, innermost, and whether it
\* fails because the key is absent
RECURSIVE FailingKey(_, _)
FailingKey(T, object) ==
  LET i == CHOOSE i \in 1..Len(Fields(T)) :
             ~Decodes(T, object, i) /\ \A j \in 1..(i - 1) : Decodes(T, object, j)
      f == Fields(T)[i]
  IN IF IsNull(Member(object, f.name)) THEN [key |-> f.name, missing |-> TRUE]
     ELSE IF f.type.k = "struct" /\ Member(object, f.name).type = "objectValue"
     THEN FailingKey(f.type.name, Member(object, f.name))
     ELSE [key |-> f.name, missing |-> FALSE]

\* C5: when a decode through a FromJson entry point with a non-null errors
\* pointer fails at key K, errors holds "K missing." if K is absent and
\* "Wrong type for K." if its value is of the wrong kind, at the top level
\* and inside a nested aggregate.
C5_ErrorMessages ==
  /\ FromJsonReturned
  /\ errors.ptr
  /\ ~ret
  /\ call.json.wellformed
  /\ call.json.root.type = "objectValue"
  /\ call.T.k = "struct"
  => errors = ErrorString(IF FailingKey(call.T.name, call.json.root).missing
                          THEN FailingKey(call.T.name, call.json.root).key \o " missing."
                          ELSE "Wrong type for "
                               \o FailingKey(call.T.name, call.json.root).key \o ".")

(***************************************************************************)
(* Properties of the engine (checked under SpecEngine).                    *)
(***************************************************************************)
\* the Json::Value is not of the kind the type is decoded from
WrongKind(T, j) ==
  \/ T.k \in {"int32", "uint32", "uint8", "float", "enum"} /\ j.type # "realValue"
  \/ T.k \in {"uint64", "char"} /\ j.type # "stringValue"
  \/ T.k \in {"array", "vector", "map"} /\ j.type # "arrayValue"
  \/ T.k = "struct" /\ j.type # "objectValue"

\* C6: every primitive decode step rejects a JSON value of the wrong kind
\* (number, string, array or object) and leaves its target as it was.
C6_WrongKindRejected ==
  Done("AsValue") /\ WrongKind(call.T, call.json) => ~ret /\ target = call.before

\* "0x" followed by sixteen lower-case hexadecimal digits, and nothing else
IsExactU64(s) ==
  /\ Len(s) = 2 + U64Digits
  /\ s[1] = "0"
  /\ s[2] = "x"
  /\ \A i \in 3..Len(s) : \E n \in 1..16 : LowerHex[n] = s[i]

\* C8: a 64-bit value is encoded as the 18 characters "0x" + 16 lower-case
\* digits, decoding its encoding gives the value back, and decoding any text
\* that is not of exactly that form fails.
C8_Uint64ExactFormat ==
  /\ Done("ToJsonValue") /\ call.T = TUint64 =>
       out.type = "stringValue" /\ IsExactU64(out.str)
  /\ Done("AsValue") /\ call.T = TUint64 /\ call.from = "encoder" =>
       ret /\ target = call.value
  /\ Done("AsValue") /\ call.T = TUint64 /\ call.json.type = "stringValue"
       /\ ~IsExactU64(call.json.str) => ~ret

\* entry i of a JSON map document carries a key
HasKey(j, i) == j.elems[i].type = "arrayValue" /\ Size(j.elems[i]) >= 1

\* two entries of the document carry the same key
DuplicateKey(j) ==
  \E a, b \in 1..Size(j) :
     a < b /\ HasKey(j, a) /\ HasKey(j, b) /\ j.elems[a].elems[1] = j.elems[b].elems[1]

\* C9: decoding a map fails whenever two entries of the document carry the
\* same key, wherever they stand and whatever their values; a map is encoded
\* as one two-element [key, value] array per entry.
C9_MapDuplicateKey ==
  /\ Done("AsValue") /\ call.T.k = "map" /\ call.json.type = "arrayValue"
       /\ DuplicateKey(call.json) => ~ret
  /\ Done("ToJsonValue") /\ call.T.k = "map" =>
       /\ out.type = "arrayValue"
       /\ Size(out) = Cardinality(DOMAIN call.value)
       /\ \A i \in 1..Size(out) : out.elems[i].type = "arrayValue" /\ Size(out.elems[i]) = 2
       /\ \A key \in DOMAIN call.value :
             \E i \in 1..Size(out) :
                /\ out.elems[i].elems[1] = JReal(key)
                /\ out.elems[i].elems[2] = ToJsonValue(call.T.second, call.value[key])

\* a duplicate key in the first and the last of three well-formed entries,
\* with different values, is refused
C9_Witness ==
  /\ Done("AsValue") /\ call.T.k = "map" /\ call.json.type = "arrayValue"
  /\ Size(call.json) = 3
  /\ \A i \in 1..3 : Size(call.json.elems[i]) = 2
  /\ call.json.elems[1].elems[1] = call.json.elems[3].elems[1]
  /\ call.json.elems[1].elems[1] # call.json.elems[2].elems[1]
  /\ call.json.elems[1].elems[2] # call.json.elems[3].elems[2]
  /\ call.json.elems[1].elems[1] = JReal(Real(1))
  /\ ~ret

\* C10: an enumeration field decodes exactly the numbers of its whitelist:
\* a whitelisted literal is stored as it is, anything else fails and stores
\* nothing.
C10_EnumWhitelist ==
  Done("AsValue") /\ call.T.k = "enum" =>
    LET literal == /\ call.json.type = "realValue"
                   /\ \E l \in EnumTraits(call.T.name) : call.json.num = Real(l)
    IN /\ ret <=> literal
       /\ literal => target = call.json.num
       /\ ~literal => target = call.before

\* 0 is a uint32_t but no VkDriverId: it is refused
C10_Witness ==
  /\ Done("AsValue") /\ call.T = TEnum("VkDriverId")
  /\ call.json = JReal(Real(0))
  /\ ~ret /\ target = call.before

\* field i of the document holds an array whose length is not the capacity
WrongLength(T, j, i) ==
  LET f == Fields(T)[i]
  IN /\ f.type.k = "array"
     /\ Member(j, f.name).type = "arrayValue"
     /\ Size(Member(j, f.name)) # f.type.n

\* C11: a structure that was encoded and then decoded into a fresh object is
\* decoded successfully and equals the original in every field, fixed-size
\* arrays, nested aggregates and variable-length fields included
C11_RoundTrip ==
  (Done("AsValue") /\ call.from = "encoder" /\ call.T.k = "struct") => (ret /\ target = call.value)

\* C12: every document VkJsonInstanceToJson produces holds the key "_comment"
\* with the deprecation text, whatever the api_version of the snapshot
C12_CommentInEveryDocument ==
  Done("VkJsonInstanceToJson") => Member(out, "_comment") = JString(DepString)

\* C7: when a fixed-size array field holds a JSON array of another length,
\* the decode of the structure fails, the failing visit returns through
\* ReadValue's wrong-type return, and no later field is visited or written.
C7_WrongLengthStopsDecode ==
  Done("Iterate") =>
    \A i \in 1..Len(Fields(call.T.name)) :
       WrongLength(call.T.name, call.json, i) =>
         /\ ~ret
         /\ Len(visited) <= i
         /\ \A n \in 1..Len(visited) : visited[n] = Fields(call.T.name)[n].name
         /\ Len(visited) = i => branch = "wrong type"
         /\ \A n \in (i + 1)..Len(Fields(call.T.name)) :
               target[Fields(call.T.name)[n].name] = call.before[Fields(call.T.name)[n].name]

\* the second array is one element short, every other key is well-formed
C7_Witness ==
  /\ Done("Iterate")
  /\ WrongLength(call.T.name, call.json, 2)
  /\ Size(Member(call.json, "deviceUUID")) = VK_UUID_SIZE
  /\ Size(Member(call.json, "deviceLUID")) = VK_LUID_SIZE
  /\ Member(call.json, "deviceNodeMask") = JReal(Real(1))
  /\ Member(call.json, "deviceLUIDValid") = JReal(Real(1))
  /\ ~ret
  /\ visited = <<"deviceUUID", "driverUUID">>
  /\ branch = "wrong type"
  /\ target.deviceNodeMask = Real(7)

\* C25: VkJsonDeviceFromJson and VkJsonInstanceFromJson, handed the text of
\* a JSON object, return true and leave the snapshot at its default value,
\* whatever the object holds and whatever the snapshot held: the switch is
\* evaluated on the snapshot just reset, whose API version 0 matches no
\* label, so no key is read and no reported flag is set.
C25_DecodeReadsNoKey ==
  ((Done("VkJsonDeviceFromJson") \/ Done("VkJsonInstanceFromJson"))
   /\ call.json.wellformed /\ call.json.root.type = "objectValue") =>
    /\ ret
    /\ target = Default(call.T)
    /\ call.T = TDevice =>
         /\ DeviceStatements(target) = <<>>
         /\ \A e \in ExtensionNames : ~target[e].reported
    /\ call.T = TInstance => InstanceReadStatements(target) = <<>>

\* VkJsonInstanceFromJson, handed the encoding of a 1.4 instance and an
\* object left by an earlier use, has returned true with the default instance
C25_Witness ==
  /\ Done("VkJsonInstanceFromJson")
  /\ call.before = OldInstance
  /\ call.json.wellformed
  /\ call.json.root.type = "objectValue"
  /\ "apiVersion" \in DOMAIN call.json.root.members
  /\ call.json.root.members["apiVersion"].type # "stringValue"
  /\ ret
  /\ target = Default(TInstance)

(***************************************************************************)
(* Properties of the generator (checked under SpecGen).                    *)
(***************************************************************************)
\* C13 as stated: the name derived from an alias is the name derived from
\* the class it is bound to, and deriving again from a derived name returns it
C13_AliasStableIdempotent ==
  /\ (Done("get_struct_name") /\ call.from = "table") => out = get_struct_name(call.class)
  /\ (Done("get_struct_name") /\ call.from = "output") => out = call.arg

\* C13 amended: deriving again from a derived name returns it; the name
\* derived from an alias is not the name derived from the class it is bound
\* to (it keeps the spelling and the suffix of the alias)
C13_IdempotentPerIdentifier ==
  /\ (Done("get_struct_name") /\ call.from = "output") => out = call.arg
  /\ (Done("get_struct_name") /\ call.from = "table" /\ call.arg # call.class)
        => out # get_struct_name(call.class)

C13_Witness ==
  /\ Done("get_struct_name")
  /\ call.from = "output"
  /\ Join(out) = "variable_pointer_features_khr"
  /\ Join(get_struct_name(call.class)) = "variable_pointers_features"

\* the characters of r with each first letter of a word in upper case, the
\* words being separated by underscores
Capitalised(r) ==
  [i \in 1..Len(r) |-> IF i = 1 \/ r[i - 1] = "_" THEN UpperChar(r[i]) ELSE r[i]]

\* r in camel case: its words capitalised, its underscores taken out
CamelCased(r) == SelectSeq(Capitalised(r), LAMBDA c : c # "_")

\* the three prefix families with the prefix of the wrapper type and the tag
\* of the instance name
Families ==
  {[prefix |-> "VK_KHR_", type |-> "VkJsonKHR", tag |-> "khr_"],
   [prefix |-> "VK_EXT_", type |-> "VkJsonExt", tag |-> "ext_"],
   [prefix |-> "VK_IMG_", type |-> "VkJsonIMG", tag |-> "img_"]}

\* the family of an identifier, if any
FamilyOf(name) ==
  {f \in Families : Len(name) >= 7 /\ Join(SubSeq(name, 1, 7)) = f.prefix}

Exceptions ==
  {<<"8_bit_storage_features_khr", "bit8_storage_features_khr">>,
   <<"memory_properties", "memory">>,
   <<"16_bit_storage_features", "bit16_storage_features">>,
   <<"i_d_properties", "id_properties">>}

\* C15: the four names of the exception table become bit8_storage_features_khr,
\* memory, bit16_storage_features and id_properties; every other name is the
\* generic result unchanged: the identifier without VkPhysicalDevice, in lower
\* case, split into words by underscores, its suffix last
C15_ExceptionTable ==
  (Done("get_struct_name") /\ call.from = "table") =>
     /\ \A e \in Exceptions :
           Join(variable_name(call.arg) \o suffix_map(call.arg)) = e[1] => Join(out) = e[2]
     /\ (\A e \in Exceptions : Join(variable_name(call.arg) \o suffix_map(call.arg)) # e[1])
           => /\ out = variable_name(call.arg) \o suffix_map(call.arg)
              /\ SelectSeq(out, LAMBDA c : c # "_")
                   = lower(removeprefix(call.arg, Name(<<"Vk", "Physical", "Device">>)))
     /\ Join(call.arg) = "VkPhysicalDevice8BitStorageFeaturesKHR" => Join(out) = "bit8_storage_features_khr"
     /\ Join(call.arg) = "VkPhysicalDeviceMemoryProperties" => Join(out) = "memory"
     /\ Join(call.arg) = "VkPhysicalDevice16BitStorageFeatures" => Join(out) = "bit16_storage_features"
     /\ Join(call.arg) = "VkPhysicalDeviceIDProperties" => Join(out) = "id_properties"
     /\ Join(call.arg) = "VkPhysicalDeviceImage2DViewOf3DFeaturesEXT"
           => Join(out) = "image_2d_view_of_3d_features_ext"

C15_Witness ==
  /\ Done("get_struct_name")
  /\ call.from = "table"
  /\ Join(call.arg) = "VkPhysicalDeviceMemoryProperties"
  /\ Join(out) = "memory"

\* C16: the wrapper of every extension has a constructor that sets reported
\* to false and zero-initialises one member per contributed structure, it
\* declares reported and exactly one member per contributed structure in the
\* order of the table, and the device aggregate declares exactly one instance
\* of each wrapper
C16_WrapperDefinition ==
  Done("gen_h") =>
     /\ Len(out.structs) = Len(call.arg)
     /\ \A i \in 1..Len(call.arg) :
           /\ out.structs[i].constructor[1]
                = [op |-> "assign", member |-> <<"r", "e", "p", "o", "r", "t", "e", "d">>, arg |-> <<"f", "a", "l", "s", "e">>]
           /\ Len(out.structs[i].constructor) = 1 + Len(call.arg[i].structs)
           /\ out.structs[i].members[1] = [type |-> <<"b", "o", "o", "l">>, name |-> <<"r", "e", "p", "o", "r", "t", "e", "d">>]
           /\ Len(out.structs[i].members) = 1 + Len(call.arg[i].structs)
           /\ \A j \in 1..Len(call.arg[i].structs) :
                 /\ out.structs[i].members[j + 1].type = Name(call.arg[i].structs[j])
                 /\ out.structs[i].constructor[j + 1]
                      = [op |-> "memset", member |-> out.structs[i].members[j + 1].name,
                         arg |-> Name(call.arg[i].structs[j])]
                 /\ Cardinality({k \in 1..Len(out.structs[i].members) :
                                   out.structs[i].members[k].name
                                     = out.structs[i].members[j + 1].name}) = 1
           /\ Cardinality({k \in 1..Len(out.VkJsonDevice) :
                             out.VkJsonDevice[k].type = out.structs[i].name}) = 1
           /\ Cardinality({k \in 1..Len(out.structs) :
                             out.structs[k].name = out.structs[i].name}) = 1

C16_Witness ==
  /\ Done("gen_h")
  /\ Len(out.structs) = Len(VULKAN_EXTENSIONS_AND_STRUCTS_MAPPING)
  /\ Join(out.structs[1].name) = "VkJsonKHRVariablePointers"
  /\ Len(out.structs[1].members) = 3
  /\ Join(out.structs[1].members[3].name) = "variable_pointers_features_khr"
  /\ Join(out.VkJsonDevice[1].name) = "khr_variable_pointers"

\* C17: every traversal function generate_struct_template emits visits the
\* fields of its class once each, in the order they are declared, joined by
\* &&; a field that is a list with VisitArray and the size field the mapping
\* names for it, every other field with Visit; the key is the name of the field
C17_VisitsEveryField ==
  Done("generate_struct_template") =>
     \A k \in {n \in 1..Len(out) : out[n].function} :
        /\ out[k].joined = "&&"
        /\ Len(out[k].calls) = Len(dataclass_fields(Join(out[k].struct_name)))
        /\ \A j \in 1..Len(out[k].calls) :
              /\ out[k].calls[j].key = dataclass_fields(Join(out[k].struct_name))[j]
              /\ out[k].calls[j].member[2] = out[k].calls[j].key
              /\ out[k].calls[j].op
                   = IF <<Join(out[k].struct_name), out[k].calls[j].key>> \in ListTyped
                     THEN "VisitArray" ELSE "Visit"
              /\ out[k].calls[j].op = "VisitArray" =>
                    /\ out[k].calls[j].count[1] = out[k].calls[j].member[1]
                    /\ out[k].calls[j].count[2]
                         = LIST_TYPE_FIELD_AND_SIZE_MAPPING[out[k].calls[j].key]
                    /\ \E n \in 1..Len(out[k].calls) :
                          out[k].calls[n].key = out[k].calls[j].count[2]

C17_Witness ==
  /\ Done("generate_struct_template")
  /\ \E k \in 1..Len(out) :
        /\ Join(out[k].struct_name) = "VkPhysicalDeviceMemoryProperties"
        /\ out[k].calls[2] = [op |-> "VisitArray", key |-> "memoryTypes",
                              count |-> <<"properties", "memoryTypeCount">>,
                              member |-> <<"properties", "memoryTypes">>]
        /\ out[k].calls[1].op = "Visit"

\* C18: whatever the list, generate_struct_template emits at most one
\* traversal function for a class, however many of its aliases the list holds
C18_NoClassEmittedTwice ==
  Done("generate_struct_template") =>
     \A k, n \in 1..Len(out) : out[k].struct_name = out[n].struct_name => k = n

C18_Witness ==
  /\ Done("generate_struct_template")
  /\ call.arg = ALL_STRUCTS
  /\ Len(out) < Len(call.arg)
  /\ ClassName(call.arg[15]) = ClassName(call.arg[16])
  /\ call.arg[15] # call.arg[16]


(***************************************************************************)
(* Properties of the generated device enumeration (checked under SpecEnum) *)
(***************************************************************************)
\* the chain a structure belongs to, by the category in its name
ChainOf(struct_name) ==
  IF contains(Name(struct_name), Spell("Properties")) THEN branch.properties
  ELSE branch.features

InChain(chain, path) == \E k \in 1..Len(chain) : chain[k] = path

\* the device's extension list holds an entry that equals the identifier
Listed(extension) ==
  \E k \in 1..Len(call.driver.extensions) :
     call.driver.extensions[k] = Join(Name(extension))

\* the wrapper of an extension, and a structure inside it
WrapperPath(extension) ==
  "device." \o Join(get_vkjson_struct_variable_name(Name(extension)))

StructPath(extension, struct_name) ==
  WrapperPath(extension) \o "." \o Join(get_struct_name(Name(struct_name)))

\* the structures of extensions are linked, and the wrappers reported,
\* exactly for the identifiers listed
ExtensionsLinkedIffListed ==
  \A i \in 1..Len(VULKAN_EXTENSIONS_AND_STRUCTS_MAPPING) :
     /\ (WrapperPath(VULKAN_EXTENSIONS_AND_STRUCTS_MAPPING[i].extension) \in out.reported)
          <=> Listed(VULKAN_EXTENSIONS_AND_STRUCTS_MAPPING[i].extension)
     /\ \A j \in 1..Len(VULKAN_EXTENSIONS_AND_STRUCTS_MAPPING[i].structs) :
          InChain(ChainOf(VULKAN_EXTENSIONS_AND_STRUCTS_MAPPING[i].structs[j]),
                  StructPath(VULKAN_EXTENSIONS_AND_STRUCTS_MAPPING[i].extension,
                             VULKAN_EXTENSIONS_AND_STRUCTS_MAPPING[i].structs[j]))
            <=> Listed(VULKAN_EXTENSIONS_AND_STRUCTS_MAPPING[i].extension)

\* the API version the driver reports is at or above a version
AtOrAbove(version) == ~NumLess(call.driver.apiVersion, version)

\* the structures of the base-1.1 group are linked exactly from 1.1 on
Group11LinkedIffAtOrAbove ==
  \A j \in 1..Len(VK_VERSION_1_1) :
     InChain(ChainOf(VK_VERSION_1_1[j]),
             "device." \o Join(get_struct_name(Name(VK_VERSION_1_1[j]))))
       <=> AtOrAbove(VK_API_VERSION_1_1)

\* the two structures of bundle n are linked exactly from the version on
BundleLinkedIffAtOrAbove(n, version) ==
  /\ InChain(branch.properties,
             "device." \o Join(lower(Name(VULKAN_CORES_AND_STRUCTS_MAPPING[n].version)))
             \o ".properties") <=> AtOrAbove(version)
  /\ InChain(branch.features,
             "device." \o Join(lower(Name(VULKAN_CORES_AND_STRUCTS_MAPPING[n].version)))
             \o ".features") <=> AtOrAbove(version)

\* C19 (as stated): when the enumeration returns, a structure of extension E
\* is in its chain and E's wrapper is reported exactly when the device's
\* extension list holds E's identifier; the base-1.1 group is linked exactly
\* when the reported API version is at or above 1.1, and the bundle of each
\* generation (1.1, 1.2, 1.3, 1.4) exactly when the reported API version is
\* at or above that generation.
C19_LinkedIffPrecondition ==
  pc = "done" =>
    /\ ExtensionsLinkedIffListed
    /\ Group11LinkedIffAtOrAbove
    /\ BundleLinkedIffAtOrAbove(1, VK_API_VERSION_1_1)
    /\ BundleLinkedIffAtOrAbove(2, VK_API_VERSION_1_2)
    /\ BundleLinkedIffAtOrAbove(3, VK_API_VERSION_1_3)
    /\ BundleLinkedIffAtOrAbove(4, VK_API_VERSION_1_4)

\* C19 (amended): as above, except that the bundle of generation 1.1 is
\* linked together with the bundle of generation 1.2, exactly when the
\* reported API version is at or above 1.2.
C19_LinkedIffGate ==
  pc = "done" =>
    /\ ExtensionsLinkedIffListed
    /\ Group11LinkedIffAtOrAbove
    /\ BundleLinkedIffAtOrAbove(1, VK_API_VERSION_1_2)
    /\ BundleLinkedIffAtOrAbove(2, VK_API_VERSION_1_2)
    /\ BundleLinkedIffAtOrAbove(3, VK_API_VERSION_1_3)
    /\ BundleLinkedIffAtOrAbove(4, VK_API_VERSION_1_4)

\* a device of version 1.1 that lists two identifiers of the table and a
\* name one character longer than a third: two wrappers reported, the
\* base-1.1 group linked, no bundle linked
C19_Witness ==
  /\ pc = "done"
  /\ call.driver.extensions = <<"VK_KHR_shader_float_controls", "VK_KHR_shader_float16_int8_",
                                "VK_IMG_relaxed_line_rasterization">>
  /\ call.driver.apiVersion = VK_API_VERSION_1_1
  /\ out.reported = {"device.khr_shader_float_controls", "device.img_relaxed_line_rasterization"}
  /\ InChain(branch.properties, "device.subgroup_properties")
  /\ ~InChain(branch.properties, "device.core11.properties")


\* the tiers of the enumeration, and whether the reported version reaches one
Tiers == {"base", "1.1", "1.2", "1.3", "1.4"}

Reached(tier) ==
  CASE tier = "base" -> TRUE
    [] tier = "1.1" -> AtOrAbove(VK_API_VERSION_1_1)
    [] tier = "1.2" -> AtOrAbove(VK_API_VERSION_1_2)
    [] tier = "1.3" -> AtOrAbove(VK_API_VERSION_1_3)
    [] tier = "1.4" -> AtOrAbove(VK_API_VERSION_1_4)

\* the positions in the record of the queries and of the links of a tier
QueriesOf(category, tier) ==
  {k \in 1..Len(visited) : /\ visited[k].op = "query"
                           /\ visited[k].category = category
                           /\ visited[k].tier = tier}

LinksOf(category, tier) ==
  {k \in 1..Len(visited) : /\ visited[k].op = "link"
                           /\ visited[k].category = category
                           /\ visited[k].tier = tier}

FirstOf(positions) == CHOOSE k \in positions : \A j \in positions : k <= j

LastOf(positions) == CHOOSE k \in positions : \A j \in positions : j <= k

\* the chain of the category as the last query before position q saw it
ChainBefore(category, q) ==
  IF \E k \in 1..(q - 1) : visited[k].op = "query" /\ visited[k].category = category
  THEN visited[LastOf({k \in 1..(q - 1) : /\ visited[k].op = "query"
                                          /\ visited[k].category = category})].chain
  ELSE <<>>

\* the structures linked in a tier, the last linked first
NewestFirst(category, tier) ==
  Link(<<>>, [k \in 1..Len(SelectSeq(visited, LAMBDA e : /\ e.op = "link"
                                                          /\ e.category = category
                                                          /\ e.tier = tier)) |->
                SelectSeq(visited, LAMBDA e : /\ e.op = "link"
                                              /\ e.category = category
                                              /\ e.tier = tier)[k].struct])

\* every structure linked in a tier is linked before the tier's query, each
\* at the head of the chain the earlier tiers left, and every query of the
\* tier is handed that chain
LinkedAtHeadBeforeQuery(category, tier) ==
  /\ LinksOf(category, tier) # {} => QueriesOf(category, tier) # {}
  /\ QueriesOf(category, tier) # {} =>
       /\ \A k \in LinksOf(category, tier) : k < FirstOf(QueriesOf(category, tier))
       /\ \A q \in QueriesOf(category, tier) :
            visited[q].chain = NewestFirst(category, tier)
                               \o ChainBefore(category, FirstOf(QueriesOf(category, tier)))

\* one query of the category in a tier reached, none in a tier not reached
OncePerTier(category, tier) ==
  Cardinality(QueriesOf(category, tier)) = IF Reached(tier) THEN 1 ELSE 0

\* all of the claim but the Properties queries of the newest tier
C20_Common ==
  /\ \A tier \in Tiers :
       /\ LinkedAtHeadBeforeQuery("Properties", tier)
       /\ LinkedAtHeadBeforeQuery("Features", tier)
       /\ OncePerTier("Features", tier)
       /\ tier # "1.4" => OncePerTier("Properties", tier)
  /\ ~Reached("1.4") => QueriesOf("Properties", "1.4") = {}
  /\ Reached("1.4") =>
       /\ visited[FirstOf(QueriesOf("Properties", "1.4"))].pCopySrcLayouts = "nullptr"
       /\ visited[FirstOf(QueriesOf("Properties", "1.4"))].pCopyDstLayouts = "nullptr"

\* C20 (as stated): when the enumeration returns, the structures of each tier
\* were linked at the head of their chain before the tier's query, each of
\* the Properties and Features queries was issued once per tier reached, and
\* in tier 1.4 the Properties query was issued twice, the second time with
\* both layout lists resized to the counts the first call reported and
\* attached.
C20_TwoPassAlways ==
  pc = "done" =>
    /\ C20_Common
    /\ Reached("1.4") =>
         /\ Cardinality(QueriesOf("Properties", "1.4")) = 2
         /\ visited[LastOf(QueriesOf("Properties", "1.4"))].copy_src_layouts = out.copySrcLayoutCount
         /\ visited[LastOf(QueriesOf("Properties", "1.4"))].pCopySrcLayouts = "copy_src_layouts"
         /\ visited[LastOf(QueriesOf("Properties", "1.4"))].copy_dst_layouts = out.copyDstLayoutCount
         /\ visited[LastOf(QueriesOf("Properties", "1.4"))].pCopyDstLayouts = "copy_dst_layouts"

\* C20 (amended): as above, except that in tier 1.4 the Properties query is
\* issued a second time exactly when the first call reported a count above
\* zero for one of the two layout lists, and then each list with a count
\* above zero has been resized to its count and attached, the other left
\* unattached; with both counts zero the query is issued once.
C20_TwoPassWhenCounted ==
  pc = "done" =>
    /\ C20_Common
    /\ Reached("1.4") =>
         /\ out.copySrcLayoutCount = call.driver.copySrcLayoutCount
         /\ out.copyDstLayoutCount = call.driver.copyDstLayoutCount
         /\ Cardinality(QueriesOf("Properties", "1.4")) =
              IF out.copySrcLayoutCount > 0 \/ out.copyDstLayoutCount > 0 THEN 2 ELSE 1
         /\ visited[LastOf(QueriesOf("Properties", "1.4"))].copy_src_layouts = out.copySrcLayoutCount
         /\ visited[LastOf(QueriesOf("Properties", "1.4"))].copy_dst_layouts = out.copyDstLayoutCount
         /\ (visited[LastOf(QueriesOf("Properties", "1.4"))].pCopySrcLayouts = "copy_src_layouts")
              <=> out.copySrcLayoutCount > 0
         /\ (visited[LastOf(QueriesOf("Properties", "1.4"))].pCopyDstLayouts = "copy_dst_layouts")
              <=> out.copyDstLayoutCount > 0

\* a device of version 1.4 with two extensions of the table that reports one
\* source layout and no destination layout: the Properties query of tier
\* 1.4 issued twice, the source list resized and attached for the second
C20_Witness ==
  /\ pc = "done"
  /\ call.driver.extensions = <<"VK_KHR_driver_properties", "VK_EXT_custom_border_color">>
  /\ call.driver.apiVersion = VK_API_VERSION_1_4
  /\ call.driver.copySrcLayoutCount = 1
  /\ call.driver.copyDstLayoutCount = 0
  /\ Cardinality(QueriesOf("Properties", "1.4")) = 2
  /\ Cardinality(QueriesOf("Features", "1.4")) = 1
  /\ visited[LastOf(QueriesOf("Properties", "1.4"))].copy_src_layouts = 1
  /\ visited[LastOf(QueriesOf("Properties", "1.4"))].chain[1] = "device.core14.properties"
  /\ LinksOf("Properties", "base") # {}


\* the structures the record says were linked, in either chain
LinkedStructs ==
  {visited[k].struct : k \in {n \in 1..Len(visited) : visited[n].op = "link"}}

\* the head a category is linked at
HeadOf(category) == IF category = "Properties" THEN "properties" ELSE "features"

\* the pNext members after the links of the record up to position i were
\* executed one by one, every pNext a null pointer to start with
RECURSIVE PNextAfter(_)
PNextAfter(i) ==
  IF i = 0 THEN [n \in LinkedStructs \cup {"properties", "features"} |-> "nullptr"]
  ELSE IF visited[i].op = "link"
  THEN SetPNext(PNextAfter(i - 1), HeadOf(visited[i].category), visited[i].struct)
  ELSE PNextAfter(i - 1)

\* the structures met from a structure on by following pNext, given up as a
\* cycle after more steps than there are structures
RECURSIVE Walk(_, _, _)
Walk(pNext, from, fuel) ==
  IF pNext[from] = "nullptr" THEN <<>>
  ELSE IF fuel = 0 THEN <<"cycle">>
  ELSE <<pNext[from]>> \o Walk(pNext, pNext[from], fuel - 1)

\* the chain of a category as the driver walks it at position i of the record
ChainAt(category, i) == Walk(PNextAfter(i), HeadOf(category), Cardinality(LinkedStructs))

\* C27: at every point of the enumeration, no structure has been linked
\* twice or into both chains; each chain, followed from its head through
\* pNext, ends at a null pointer without meeting a structure twice; and the
\* chain every query hands to the driver holds every structure linked into
\* that chain before it, in this tier or an earlier one.
C27_ChainsAcyclic ==
  /\ \A k, n \in {m \in 1..Len(visited) : visited[m].op = "link"} :
        visited[k].struct = visited[n].struct => k = n
  /\ \A category \in {"Properties", "Features"} :
        /\ ChainAt(category, Len(visited)) = branch[HeadOf(category)]
        /\ \A k, n \in 1..Len(branch[HeadOf(category)]) :
              branch[HeadOf(category)][k] = branch[HeadOf(category)][n] => k = n
        /\ \A k \in 1..Len(branch[HeadOf(category)]) : branch[HeadOf(category)][k] # "cycle"
  /\ \A q \in {m \in 1..Len(visited) : visited[m].op = "query"} :
        /\ visited[q].chain = ChainAt(visited[q].category, q)
        /\ \A k \in 1..(q - 1) :
              (visited[k].op = "link" /\ visited[k].category = visited[q].category)
                => InChain(visited[q].chain, visited[k].struct)

\* a device of version 1.4 that lists every extension of the table: the
\* last Properties query walks a chain that starts at the structure of the
\* newest bundle and still holds a structure linked before the base query
C27_Witness ==
  /\ pc = "done"
  /\ Len(call.driver.extensions) = Len(VULKAN_EXTENSIONS_AND_STRUCTS_MAPPING)
  /\ call.driver.apiVersion = VK_API_VERSION_1_4
  /\ Len(branch.properties) > 10
  /\ Len(branch.features) > 10
  /\ ChainAt("Properties", Len(visited))[1] = "device.core14.properties"
  /\ InChain(ChainAt("Properties", Len(visited)), "device.khr_driver_properties.driver_properties_khr")

\* the keys of the document encoded from the enumerated device
Encoded(key) == key \in DOMAIN out.members

\* C26: in the document encoded from an enumerated device, the base members
\* are present, and so are the members of every tier the enumeration
\* populated: the base-1.1 group and the two sweeps when the group was
\* linked, core11 and core12, core13, and core14 when their structures were
\* linked, and the wrapper of every extension reported.
C26_EncodedHoldsPopulatedTiers ==
  pc = "encoded" =>
    /\ \A key \in {"properties", "features", "memory", "queues", "extensions", "layers", "formats"} :
         Encoded(key)
    /\ InChain(branch.properties, "device.subgroup_properties") =>
         \A key \in {"subgroupProperties", "pointClippingProperties", "multiviewProperties",
                     "idProperties", "maintenance3Properties", "multiviewFeatures",
                     "variablePointersFeatures", "protectedMemoryFeatures",
                     "samplerYcbcrConversionFeatures", "shaderDrawParameterFeatures",
                     "bit16StorageFeatures", "externalFenceProperties",
                     "externalSemaphoreProperties"} : Encoded(key)
    /\ InChain(branch.properties, "device.core11.properties") => Encoded("core11")
    /\ InChain(branch.properties, "device.core12.properties") => Encoded("core12")
    /\ InChain(branch.properties, "device.core13.properties") => Encoded("core13")
    /\ InChain(branch.properties, "device.core14.properties") => Encoded("core14")
    /\ \A e \in ExtensionNames :
         (\E k \in 1..Len(call.driver.extensions) : call.driver.extensions[k] = e) => Encoded(e)

(***************************************************************************)
(* Properties of the handle-type sweeps (checked under SpecSweep)          *)
(***************************************************************************)
\* the single-bit values from first to last, in order
RECURSIVE BitsFrom(_, _)
BitsFrom(first, last) ==
  IF first > last THEN <<>> ELSE <<first>> \o BitsFrom(2 * first, last)

\* C21: when a sweep has ended, the handle types it asked for are the single
\* bits from the first to the last of the enumeration, each once and in
\* doubling order, and a handle type is in the map exactly when one of the
\* three fields the driver returned for it is not zero (and then with the
\* properties returned for it); while it runs it has asked for a prefix of
\* those bits.
C21_SweepEveryBitOnce ==
  /\ Len(visited) <= Len(BitsFrom(call.first, call.last))
  /\ \A k \in 1..Len(visited) : visited[k].handle_type = BitsFrom(call.first, call.last)[k]
  /\ pc = "done" =>
       /\ Len(visited) = Len(BitsFrom(call.first, call.last))
       /\ DOMAIN out = {visited[k].handle_type : k \in {n \in 1..Len(visited) :
                          \/ visited[n].properties.exportFromImportedHandleTypes # 0
                          \/ visited[n].properties.compatibleHandleTypes # 0
                          \/ visited[n].properties.features # 0}}
       /\ \A k \in 1..Len(visited) :
            visited[k].handle_type \in DOMAIN out => out[visited[k].handle_type] = visited[k].properties

\* the semaphore sweep ended after five queries, three of them retained
C21_Witness ==
  /\ pc = "done"
  /\ call.fn = "semaphore"
  /\ Len(visited) = 5
  /\ DOMAIN out = {1, 4, 16}
  /\ visited[2].properties.features = 0


(***************************************************************************)
(* Properties of the generated instance enumeration (checked under         *)
(* SpecInstance)                                                           *)
(***************************************************************************)
\* the position of a handle in the device list (from 0), as the device
\* enumeration left it
PositionOf(handle) ==
  (CHOOSE i \in 1..Len(call.driver.devices) : call.driver.devices[i] = handle) - 1

\* C22: when the instance enumeration returns a snapshot, the index list of
\* every group it holds is the list of positions, in the device list, of the
\* handles of that group, in the order of the group.
C22_GroupIndicesOwnMembers ==
  (pc = "done" /\ out # NewInstance) =>
    \A g \in 1..Len(out.device_groups) :
       out.device_groups[g].device_inds =
         [i \in 1..Len(call.driver.groups[g]) |-> PositionOf(call.driver.groups[g][i])]


\* the positions in the record of the calls of a function
CallsOf(fn) == {k \in 1..Len(visited) : visited[k].fn = fn}

\* an instance-level driver call did not succeed
InstanceCallFailed ==
  \E k \in 1..Len(visited) : visited[k].level = "instance" /\ visited[k].result # "VK_SUCCESS"

\* the position of the j-th call of VkJsonGetDevice
GetDeviceCall(j) ==
  CHOOSE k \in CallsOf("VkJsonGetDevice") :
     Cardinality({n \in CallsOf("VkJsonGetDevice") : n <= k}) = j

\* C23: the instance enumeration returns VkJsonInstance() (api_version 0 and
\* no layers, extensions, devices or groups) whenever an instance-level
\* driver call did not succeed, whatever it had gathered; every call of the
\* device enumeration adds a snapshot whatever its sub-queries return, a
\* failed or zero count leaving the list empty; and with every
\* instance-level call succeeding the snapshot returned holds one device per
\* handle.
C23_InstanceAbortsDeviceNever ==
  /\ Len(target.devices) = Cardinality(CallsOf("VkJsonGetDevice"))
  /\ \A j \in 1..Len(target.devices) :
       (\/ visited[GetDeviceCall(j) + 1].result # "VK_SUCCESS"
        \/ DeviceExtensionsOf(target.devices[j].handle) = <<>>)
         => target.devices[j].extensions = <<>>
  /\ pc = "done" =>
       /\ InstanceCallFailed => out = NewInstance
       /\ ~InstanceCallFailed =>
            /\ out = target
            /\ Len(out.devices) = Len(call.driver.devices)

\* the enumeration gathered layers and devices, a sub-query of a device
\* failed without effect on the run, then the query of the groups failed and
\* the default snapshot was returned
C23_Witness ==
  /\ pc = "done"
  /\ Len(target.layers) = 2
  /\ Len(target.devices) = 2
  /\ \E k \in 1..Len(visited) : visited[k].level = "device" /\ visited[k].result # "VK_SUCCESS"
  /\ visited[Len(visited) - 1].fn = "vkEnumeratePhysicalDeviceGroups"
  /\ visited[Len(visited) - 1].result = "VK_INCOMPLETE"
  /\ out = NewInstance

\* vkCreateInstance has succeeded
Created ==
  \E k \in CallsOf("vkCreateInstance") : visited[k].result = "VK_SUCCESS"

\* C28: the driver instance is destroyed only after it was created and at
\* most once; when the enumeration has returned, it was destroyed exactly
\* once if it was created (as the last driver call before the return) and
\* not at all otherwise.
C28_DestroyedOnceIffCreated ==
  /\ Cardinality(CallsOf("vkDestroyInstance")) <= 1
  /\ \A k \in CallsOf("vkDestroyInstance") :
       \E c \in CallsOf("vkCreateInstance") : c < k /\ visited[c].result = "VK_SUCCESS"
  /\ pc = "done" =>
       /\ Created => /\ Cardinality(CallsOf("vkDestroyInstance")) = 1
                     /\ visited[Len(visited)].fn = "vkDestroyInstance"
       /\ ~Created => CallsOf("vkDestroyInstance") = {}

\* the instance was created, the query of the version failed, and the
\* instance was destroyed before the default snapshot was returned
C28_Witness ==
  /\ pc = "done"
  /\ Created
  /\ out = NewInstance
  /\ visited[Len(visited) - 1].fn = "vkEnumerateInstanceVersion"
  /\ visited[Len(visited) - 1].result # "VK_SUCCESS"
  /\ visited[Len(visited)].fn = "vkDestroyInstance"


(***************************************************************************)
(* Properties of the metadata model (checked under SpecGen)                *)
(***************************************************************************)
\* the fields a class of ALL_STRUCTS declares
Declared(i) ==
  {dataclass_fields(Join(Name(ClassName(ALL_STRUCTS[i]))))[j] :
     j \in 1..Len(dataclass_fields(Join(Name(ClassName(ALL_STRUCTS[i])))))}

\* the list-typed fields of a class of ALL_STRUCTS
ListFields(i) ==
  {f \in Declared(i) : <<Join(Name(ClassName(ALL_STRUCTS[i]))), f>> \in ListTyped}

\* in the tables: the list-typed fields are the keys of the mapping, four in
\* all, and each size field is declared by the class of its list
SizeFieldsDeclared ==
  /\ \A i \in 1..Len(ALL_STRUCTS) : \A f \in ListFields(i) :
        /\ f \in DOMAIN LIST_TYPE_FIELD_AND_SIZE_MAPPING
        /\ LIST_TYPE_FIELD_AND_SIZE_MAPPING[f] \in Declared(i)
  /\ Cardinality(DOMAIN LIST_TYPE_FIELD_AND_SIZE_MAPPING) = 4
  /\ DOMAIN LIST_TYPE_FIELD_AND_SIZE_MAPPING = UNION {ListFields(i) : i \in 1..Len(ALL_STRUCTS)}

\* C24: every list-typed field of every class of ALL_STRUCTS is a key of
\* LIST_TYPE_FIELD_AND_SIZE_MAPPING and the size field the key maps to is
\* declared in the same class; the mapping has four keys, each the list-typed
\* field of a class of ALL_STRUCTS; and every VisitArray call the generator
\* writes for a class takes its count from a field the class declares.
C24_SizeFieldInSameStruct ==
  /\ SizeFieldsDeclared
  /\ (pc = "done" /\ call.fn = "generate_struct_template") =>
       \A n \in {k \in 1..Len(out) : out[k].function} : \A j \in 1..Len(out[n].calls) :
          out[n].calls[j].op = "VisitArray" =>
            \E f \in 1..Len(dataclass_fields(Join(out[n].struct_name))) :
               dataclass_fields(Join(out[n].struct_name))[f] = out[n].calls[j].count[2]

\* the template of a list that holds VkPhysicalDeviceMemoryProperties was
\* generated, with the two VisitArray calls of the class
C24_Witness ==
  /\ pc = "done"
  /\ call.fn = "generate_struct_template"
  /\ \E n \in 1..Len(out) :
        /\ Join(out[n].struct_name) = "VkPhysicalDeviceMemoryProperties"
        /\ out[n].function
        /\ \E j \in 1..Len(out[n].calls) :
              /\ out[n].calls[j].op = "VisitArray"
              /\ out[n].calls[j].key = "memoryHeaps"
              /\ out[n].calls[j].count[2] = "memoryHeapCount"


\* the place of a field among the fields a class of ALL_STRUCTS declares
PlaceOf(i, field) ==
  CHOOSE j \in 1..Len(dataclass_fields(Join(Name(ClassName(ALL_STRUCTS[i]))))) :
     dataclass_fields(Join(Name(ClassName(ALL_STRUCTS[i]))))[j] = field

\* in the tables: every size field is declared before its list-typed field
SizeFieldsDeclaredFirst ==
  \A i \in 1..Len(ALL_STRUCTS) : \A f \in ListFields(i) :
     PlaceOf(i, LIST_TYPE_FIELD_AND_SIZE_MAPPING[f]) < PlaceOf(i, f)

\* C29: in every class of ALL_STRUCTS the size field of a list-typed field is
\* declared before the list-typed field; and in every function the generator
\* writes, a VisitArray call comes after the Visit call of the field its
\* count is taken from, in the same chain of "&&".
C29_CountBeforeList ==
  /\ SizeFieldsDeclaredFirst
  /\ (pc = "done" /\ call.fn = "generate_struct_template") =>
       \A n \in {k \in 1..Len(out) : out[k].function} : \A j \in 1..Len(out[n].calls) :
          out[n].calls[j].op = "VisitArray" =>
            /\ out[n].joined = "&&"
            /\ \E before \in 1..(j - 1) :
                  /\ out[n].calls[before].op = "Visit"
                  /\ out[n].calls[before].key = out[n].calls[j].count[2]
                  /\ out[n].calls[before].member = out[n].calls[j].count

\* the template of the whole of ALL_STRUCTS was generated: the function of
\* VkPhysicalDeviceVulkan14Properties visits copyDstLayoutCount right before
\* the VisitArray call of pCopyDstLayouts
C29_Witness ==
  /\ pc = "done"
  /\ call.fn = "generate_struct_template"
  /\ Len(call.arg) = Len(ALL_STRUCTS)
  /\ \E n \in 1..Len(out) :
        /\ Join(out[n].struct_name) = "VkPhysicalDeviceVulkan14Properties"
        /\ \E j \in 2..Len(out[n].calls) :
              /\ out[n].calls[j].op = "VisitArray"
              /\ out[n].calls[j].key = "pCopyDstLayouts"
              /\ out[n].calls[j - 1].op = "Visit"
              /\ out[n].calls[j - 1].key = "copyDstLayoutCount"


\* the structures the three dependency tables name
NamedStructures ==
  UNION {{VULKAN_EXTENSIONS_AND_STRUCTS_MAPPING[i].structs[j] :
            j \in 1..Len(VULKAN_EXTENSIONS_AND_STRUCTS_MAPPING[i].structs)} :
         i \in 1..Len(VULKAN_EXTENSIONS_AND_STRUCTS_MAPPING)}
  \cup UNION {{VULKAN_CORES_AND_STRUCTS_MAPPING[i].structs[j] :
                 j \in 1..Len(VULKAN_CORES_AND_STRUCTS_MAPPING[i].structs)} :
              i \in 1..Len(VULKAN_CORES_AND_STRUCTS_MAPPING)}
  \cup {VK_VERSION_1_0[i] : i \in 1..Len(VK_VERSION_1_0)}
  \cup {VK_VERSION_1_1[i] : i \in 1..Len(VK_VERSION_1_1)}

\* the classes of ALL_STRUCTS
AllClasses == {ClassName(ALL_STRUCTS[i]) : i \in 1..Len(ALL_STRUCTS)}

\* the Iterate functions of the unit written that take a structure
FunctionsFor(class) ==
  {k \in 1..Len(out.functions) : out.functions[k] = Join(Name(class))}

\* C30: once gen_cc has written the serialization unit, every structure the
\* extension, core-version or base-version table names has exactly one
\* Iterate function in it; its class is in ALL_STRUCTS under a name that
\* holds Properties, Features or Limits; no class of ALL_STRUCTS is one of
\* the structures with a hand-written Iterate; and every member the device
\* traversal visits for the two base versions is one that
\* generate_memset_statements declares and zero-initialises from
\* EXTENSION_INDEPENDENT_STRUCTS
C30_OneVisitorPerNamedStructure ==
  Done("gen_cc") =>
    /\ \A n \in NamedStructures :
          /\ Cardinality(FunctionsFor(ClassName(n))) = 1
          /\ ClassName(n) \in AllClasses
          /\ struct_var(Name(ClassName(n))) # "None"
    /\ \A c \in AllClasses :
          \A h \in 1..Len(HandWrittenBefore \o HandWrittenAfter) :
             (HandWrittenBefore \o HandWrittenAfter)[h] # Join(Name(c))
    /\ \A j \in 1..Len(out.device) :
          \E e \in 1..Len(EXTENSION_INDEPENDENT_STRUCTS) :
             generate_memset_statements(EXTENSION_INDEPENDENT_STRUCTS)[e].variable_name
               = out.device[j].member

\* gen_cc has run: a structure named through an alias has its one function
\* under the name of its class, and the device traversal visits the fourteen
\* members of the base versions
C30_Witness ==
  /\ Done("gen_cc")
  /\ \E n \in NamedStructures :
        /\ ClassName(n) # n
        /\ Cardinality(FunctionsFor(ClassName(n))) = 1
        /\ FunctionsFor(n) = {}
  /\ Len(out.device) = 14

====
